---- MODULE Spec2Model ----
(***************************************************************************)
(* Model of the logging package: the level and tag resolution, the named   *)
(* logger registry with its replay buffers, and the dispatch pipeline      *)
(* (producers, flush goroutines, the single consumer goroutine and its     *)
(* pause / restart / stop control channel).                                *)
(***************************************************************************)
EXTENDS Integers, Sequences, FiniteSets, TLC

(***************************************************************************)
(* LogLevel: the ordered severity scale.                                   *)
(***************************************************************************)
DEFAULT == 0
VERBOSE == 1
DEBUG == 2
INFO == 3
WARN == 4
ERROR == 5
PANIC == 6

LogLevel == DEFAULT..PANIC

(* the state constants sent on stateChannel *)
stopped == 0
paused == 1
running == 2

(***************************************************************************)
(* Bounds of the model.                                                    *)
(***************************************************************************)
\* capacity of incomingChannel in the model (2048 in the program)
QueueCap == 2
\* largest replay buffer length a caller asks for
MaxBufLen == 1
\* number of calls made in one behaviour of the pipeline specification
MaxCalls == 4
\* number of calls made in one behaviour of the control specification
MaxControlCalls == 4
\* number of calls made in one behaviour of the resolution specification
MaxResolveOps == 3
MaxRing == 2
MaxReplayCalls == 4
MaxPanicCalls == 3
MaxSinkCalls == 4

(***************************************************************************)
(* Finite input sets.                                                      *)
(***************************************************************************)
Threads == {"t1", "t2"}
Names == {"A", "B"}
Tags == {"x", "y"}
\* tag lists a caller passes; NilTags is both the nil and the empty slice
NilTags == << >>
TagLists == {NilTags, <<"x">>, <<"y">>, <<"x", "y">>, <<"y", "x">>}

\* logger instances: 0 is the nil pointer, 1 the default logger, the
\* others are allocated by GetLogger in order
NoLogger == 0
defaultLogger == 1
MaxInst == 3
Inst == 1..MaxInst

\* inputs of the resolution specification
ResolveSetLevels == VERBOSE..ERROR
ResolveTagLevels == {DEFAULT, DEBUG, INFO, ERROR}
ResolveRecordLevels == VERBOSE..PANIC
ResolveCheckLoggers == {defaultLogger, 2}

\* inputs of the pipeline specification
PipeLevels == {DEBUG, ERROR}
PipeSetLevels == {DEBUG, ERROR}
PipeTagLists == {NilTags}
ReplayCallers == {"t1"}
ReplayLoggers == {defaultLogger, 2}
\* the levels logged on the default logger and on the named one
ReplayLevels(i) == IF i = defaultLogger THEN {DEBUG, ERROR} ELSE {DEBUG}
ReplaySetLevels == {DEBUG}
ReplayTags == {"x"}
ReplayTagLevels == {WARN}
\* one caller panics while the other one logs
PanicCallers == {"t1"}
PanicProducers == {"t2"}
PanicLevels == {DEBUG}
\* NullAppender and ErrorAppender
SinkKinds == {"null", "error"}
SinkCallers == {"t1"}
PipeNames == {"A"}

(***************************************************************************)
(* LogRecord.  id identifies the record object, seq the enqueue that put   *)
(* it in the channel, replay is Time # Original; asLogged remembers what   *)
(* the resolution gave when the record was made.                           *)
(***************************************************************************)
NoRecord ==
    [id |-> 0, logger |-> NoLogger, level |-> DEFAULT, tags |-> NilTags,
     thread |-> "", replay |-> FALSE, seq |-> 0, asLogged |-> FALSE]

NewLogRecord(id, logger, level, tags, t) ==
    [id |-> id, logger |-> logger, level |-> level, tags |-> tags,
     thread |-> t, replay |-> FALSE, seq |-> 0, asLogged |-> FALSE]

(***************************************************************************)
(* Tag level maps.  A map is a function whose domain is its key set; keys  *)
(* are never deleted and a map is made only to receive its first key, so   *)
(* the nil map is the map with no key.                                     *)
(***************************************************************************)
NilMap == [x \in {} |-> DEFAULT]

MapPut(m, tag, l) ==
    [x \in (DOMAIN m) \cup {tag} |-> IF x = tag THEN l ELSE m[x]]

(***************************************************************************)
(* container/ring: n cells in a cycle and a pointer to one cell.           *)
(***************************************************************************)
NilRing == [vals |-> << >>, pos |-> 0]

RingLen(r) == Len(r.vals)

RingNew(n) ==
    IF n <= 0 THEN NilRing ELSE [vals |-> [i \in 1..n |-> NoRecord], pos |-> 1]

\* the pointer is not advanced: every record lands in the same cell
RingInsert_inplace(r, rec) ==
    [vals |-> [r.vals EXCEPT ![r.pos] = rec], pos |-> r.pos]

\* logger.buffer.Next().Value = record; logger.buffer = logger.buffer.Next()
RingInsert(r, rec) ==
    LET p == (r.pos % RingLen(r)) + 1
    IN  [vals |-> [r.vals EXCEPT ![p] = rec], pos |-> p]

\* ring.Do: the cells in forward order starting at the pointer
RingDo(r) ==
    [i \in 1..RingLen(r) |-> r.vals[((r.pos + i - 2) % RingLen(r)) + 1]]

RECURSIVE SkipNil(_)
SkipNil(s) ==
    IF s = << >> THEN << >>
    ELSE IF Head(s) = NoRecord THEN SkipNil(Tail(s))
    ELSE <<Head(s)>> \o SkipNil(Tail(s))

(***************************************************************************)
(* Level and tag resolution.  lv and tl are the loggers' level and         *)
(* tagLevels fields.                                                       *)
(***************************************************************************)
\* a tag mapped to a level above l vetoes the tags after it
RECURSIVE checkTagLevel_veto(_, _, _, _)
checkTagLevel_veto(tl, logger, l, tags) ==
    IF tags = << >> THEN FALSE
    ELSE LET tag == Head(tags)
         IN  IF tl[logger] # NilMap /\ tag \in DOMAIN tl[logger]
             THEN tl[logger][tag] <= l
             ELSE IF logger # defaultLogger /\ tl[defaultLogger] # NilMap
                     /\ tag \in DOMAIN tl[defaultLogger]
             THEN tl[defaultLogger][tag] <= l
             ELSE checkTagLevel_veto(tl, logger, l, Tail(tags))

RECURSIVE checkTagLevel(_, _, _, _)
checkTagLevel(tl, logger, l, tags) ==
    IF tags = << >> THEN FALSE
    ELSE LET tag == Head(tags)
         IN  IF tl[logger] # NilMap /\ tag \in DOMAIN tl[logger]
                /\ tl[logger][tag] <= l
             THEN TRUE
             ELSE IF logger # defaultLogger /\ tl[defaultLogger] # NilMap
                     /\ tag \in DOMAIN tl[defaultLogger]
                     /\ tl[defaultLogger][tag] <= l
             THEN TRUE
             ELSE checkTagLevel(tl, logger, l, Tail(tags))

\* the scalar comparison is strict
checkLevelWithTags_strict(lv, tl, logger, l, tags) ==
    IF (tl[logger] # NilMap \/ tl[defaultLogger] # NilMap) /\ tags # NilTags
       /\ checkTagLevel(tl, logger, l, tags)
    THEN TRUE
    ELSE IF lv[logger] # DEFAULT THEN lv[logger] < l
    ELSE lv[defaultLogger] < l

\* when tag levels are configured and the record has tags, the tags decide
checkLevelWithTags_tagsDecide(lv, tl, logger, l, tags) ==
    IF (tl[logger] # NilMap \/ tl[defaultLogger] # NilMap) /\ tags # NilTags
    THEN checkTagLevel(tl, logger, l, tags)
    ELSE IF lv[logger] # DEFAULT THEN lv[logger] <= l
    ELSE lv[defaultLogger] <= l

checkLevelWithTags(lv, tl, logger, l, tags) ==
    IF (tl[logger] # NilMap \/ tl[defaultLogger] # NilMap) /\ tags # NilTags
       /\ checkTagLevel(tl, logger, l, tags)
    THEN TRUE
    ELSE IF lv[logger] # DEFAULT THEN lv[logger] <= l
    ELSE lv[defaultLogger] <= l

(***************************************************************************)
(* State.                                                                  *)
(***************************************************************************)
VARIABLES
    level,            \* LoggerImpl.level of every logger instance
    tagLevels,        \* LoggerImpl.tagLevels
    buffer,           \* LoggerImpl.buffer
    numInst,          \* number of LoggerImpl objects allocated so far
    loggers,          \* the registry: name -> instance (NoLogger when absent)
    known,            \* instances some caller holds a reference to
    incomingChannel,  \* the buffered channel of records
    logged,           \* produced counter
    processed,        \* consumed counter
    enableVerbose,    \* the verbose flag
    waiter,           \* counter of the package-level WaitGroup
    cpc,              \* position of the processIncoming goroutine
    current,          \* the record the consumer has received
    crashed,          \* an unrecovered panic has ended the process
    pc,               \* position of every caller thread
    local,            \* locals of the call a thread is in
    wg,               \* counter of the WaitGroup made by a thread's call
    tasks,            \* the flush goroutines
    history,          \* what the consumer did with each record, in order
    enq,              \* number of sends on incomingChannel so far
    returned,         \* enqueues whose originating call has returned
    replayed,         \* enqueues made by the flush goroutines of a call
    pauseHeld,        \* a PauseLogging has returned, no restart since
    pausedSeqs,       \* enqueues made while pauseHeld
    stopReceived,     \* the consumer has received the stop signal
    stopReturned,     \* a StopLogging call has returned
    appenders,        \* the global list of appenders
    inserted,         \* ids put in each logger's ring since it was made
    logErrors,        \* the error channel given to CaptureLoggingErrors
    sink,             \* level and closed flag of every appender object
    logMutex,         \* the thread holding logMutex for writing, if any
    rolling,          \* the fields of the RollingFileAppender
    disk,             \* the files of the RollingFileAppender, by generation
    rollLog,          \* what the RollingFileAppender has done so far
    lookups,          \* the ClearLoggers calls so far, and what every
                      \* GetLogger call returned
    lastCheck,        \* arguments and result of a CheckLevel call, until
                      \* the next level change
    calls             \* number of calls made so far

vars ==
    <<level, tagLevels, buffer, numInst, loggers, known, incomingChannel,
      logged, processed, enableVerbose, waiter, cpc, current, crashed, pc,
      local, wg, tasks, history, enq, returned, replayed, pauseHeld,
      pausedSeqs, stopReceived, stopReturned, lastCheck, calls,
      appenders, inserted, logErrors, sink, logMutex, rolling, disk,
      rollLog, lookups>>

sinkVars == <<logErrors, sink, logMutex, rolling, disk, rollLog, lookups>>
configVars == <<level, tagLevels, buffer, numInst, loggers, known, appenders>>
queueVars == <<incomingChannel, logged, enq>>
consumerVars == <<processed, waiter, cpc, current, crashed, history>>
ghostVars ==
    <<returned, replayed, pauseHeld, pausedSeqs, stopReceived, stopReturned,
      lastCheck, inserted>>

NoLocal ==
    [rec |-> NoRecord, name |-> "", inst |-> NoLogger, st |-> running,
     p |-> 0, pre |-> {}, flushed |-> {}, op |-> "", cont |-> "idle",
     sig |-> << >>]

NoCheck == [logger |-> NoLogger, l |-> DEFAULT, tags |-> NilTags, passed |-> FALSE]

(***************************************************************************)
(* Appenders.  Every name is one appender object; the kind of the object   *)
(* decides what its Log does.                                              *)
(***************************************************************************)
Appenders == {"stderr", "null", "error", "memory", "rolling"}

\* the appenders that implement ClosableAppender
Closable(appender) == appender = "rolling"

\* New...Appender: every appender starts at level DEFAULT
NewAppender == [level |-> DEFAULT, removed |-> FALSE]

checkLevel(appenderLevel, l) == appenderLevel <= l

\* the appenders whose Log consults checkLevel before recording
FiltersByLevel(appender) == appender \in {"stderr", "memory", "rolling"}

(***************************************************************************)
(* The error channel: a Go channel of capacity cap holding q, with         *)
(* possibly a receiver blocked in a receive, and the errors received so    *)
(* far in got.                                                             *)
(***************************************************************************)
NoChan == [set |-> FALSE, cap |-> 0, q |-> << >>, waiting |-> FALSE, got |-> << >>]

MakeChan(n) == [set |-> TRUE, cap |-> n, q |-> << >>, waiting |-> FALSE, got |-> << >>]

\* the full channel makes room by losing its oldest error
logError_evict(ch, err) ==
    IF ~ch.set THEN ch
    ELSE IF ch.waiting THEN [ch EXCEPT !.got = Append(@, err), !.waiting = FALSE]
    ELSE IF Len(ch.q) < ch.cap THEN [ch EXCEPT !.q = Append(@, err)]
    ELSE IF ch.cap > 0 THEN [ch EXCEPT !.q = Append(Tail(@), err)]
    ELSE ch

\* select { case logErrors <- err: default: } : the send happens when a
\* receiver is blocked on the channel or the buffer has room
logError(ch, err) ==
    IF ~ch.set THEN ch
    ELSE IF ch.waiting THEN [ch EXCEPT !.got = Append(@, err), !.waiting = FALSE]
    ELSE IF Len(ch.q) < ch.cap THEN [ch EXCEPT !.q = Append(@, err)]
    ELSE ch

(***************************************************************************)
(* The RollingFileAppender and its files.  disk[0] is the current file     *)
(* prefix.suffix, disk[i] the file prefix.i.suffix; a file holds the       *)
(* writes made to it, each with its serial number and its byte count.      *)
(***************************************************************************)
MaxFiles == 3
MaxWrites == 3
MinFileSize == 1024
RecordSizes == {512, 700}
FileSizes == {100, 1024, 2048}
FileCounts == {-1, 1, 2, MaxFiles}
Generations == 0..MaxFiles

NoFile == [exists |-> FALSE, data |-> << >>]
EmptyFile == [exists |-> TRUE, data |-> << >>]

RECURSIVE SumBytes(_)
SumBytes(data) == IF data = << >> THEN 0 ELSE Head(data).bytes + SumBytes(Tail(data))

\* os.Stat(...).Size()
Size(file) == SumBytes(file.data)

\* the I/O failures of one call: the open fails, the rename of file i
\* fails, or os.Stat of the file after file i fails otherwise than with
\* "not exist"
NoFault == [op |-> "none", at |-> 0]
Faults ==
    {NoFault, [op |-> "open", at |-> 0]}
        \cup {[op |-> o, at |-> i] :
                 o \in {"rename", "stat"}, i \in 0..(MaxFiles - 2)}

\* the write of the record to currentWriter fails
WriteFault == [op |-> "write", at |-> 0]

\* readers is the number of read locks held on the appender's mutex while
\* no call is running
NewRollingFileAppender(maxFileSize, maxFiles) ==
    [maxFileSize |-> IF maxFileSize < MinFileSize THEN MinFileSize ELSE maxFileSize,
     maxFiles |-> IF maxFiles <= 0 THEN 1 ELSE maxFiles,
     firstTime |-> TRUE,
     currentWriter |-> FALSE,
     readers |-> 0]

NoRollLog ==
    [writes |-> 0, written |-> 0, initial |-> 0, reached |-> 0, ops |-> 0,
     rolls |-> 0,
     last |-> [op |-> "none", needed |-> FALSE, err |-> FALSE,
               wrote |-> FALSE, bytes |-> 0, fault |-> NoFault,
               steps |-> << >>]]

\* needsRoll rolls by size also when there is a single file
needsRoll_bySize(r, d) ==
    IF r.firstTime /\ r.maxFiles # 1 THEN TRUE
    ELSE IF ~d[0].exists THEN TRUE
    ELSE Size(d[0]) >= r.maxFileSize

\* needsRoll rolls only once the file is larger than maxFileSize
needsRoll_late(r, d) ==
    IF r.maxFiles = 1 THEN ~d[0].exists
    ELSE IF r.firstTime THEN TRUE
    ELSE IF ~d[0].exists THEN TRUE
    ELSE Size(d[0]) > r.maxFileSize

\* os.Stat fails exactly when the file does not exist
needsRoll(r, d) ==
    IF r.maxFiles = 1 THEN ~d[0].exists
    ELSE IF r.firstTime THEN TRUE
    ELSE IF ~d[0].exists THEN TRUE
    ELSE Size(d[0]) >= r.maxFileSize

\* Close: the writer is flushed after every record, so closing loses nothing
Close(r) == [r EXCEPT !.currentWriter = FALSE]

\* one call of os.Remove or os.Rename made by Roll: the file it is made
\* on, whether the file after it existed at that moment, whether it went
\* through
fileOp(op, i, d, ok) == [op |-> op, at |-> i, over |-> d[i + 1].exists, ok |-> ok]

\* os.Remove(nextFileName), called when os.Stat(nextFileName) has failed
\* otherwise than with "not exist"; it fails on a file that is not there
removeNext(i, d, fault) ==
    IF fault # [op |-> "stat", at |-> i]
    THEN [disk |-> d, err |-> FALSE, steps |-> << >>]
    ELSE IF ~d[i + 1].exists
    THEN [disk |-> d, err |-> TRUE, steps |-> <<fileOp("remove", i, d, FALSE)>>]
    ELSE [disk |-> [d EXCEPT ![i + 1] = NoFile], err |-> FALSE,
          steps |-> <<fileOp("remove", i, d, TRUE)>>]

\* the loop of Roll copies instead of renaming
\* os.Rename(fileName, nextFileName) has failed
renameFailed(i, rm) ==
    [disk |-> rm.disk, err |-> TRUE,
     steps |-> rm.steps \o <<fileOp("rename", i, rm.disk, FALSE)>>]

\* the calls made for file i, followed by those made for the files below
renamedThen(i, rm, rest) ==
    [rest EXCEPT !.steps = rm.steps \o <<fileOp("rename", i, rm.disk, TRUE)>> \o @]

\* the file keeps its old name as well
osRename_copy(i, d) == [d EXCEPT ![i + 1] = d[i]]

\* os.Rename(fileName, nextFileName), replacing what is there
osRename(i, d) == [d EXCEPT ![i + 1] = d[i], ![i] = NoFile]

\* the loop of Roll from file i down to the current file: a file that
\* exists is renamed to the next number; rm is what the os.Stat and
\* os.Remove of the next file have left
RECURSIVE renameFrom(_, _, _)
RECURSIVE renameNext(_, _, _)
renameNext(i, rm, fault) ==
    IF rm.err THEN rm
    ELSE IF fault = [op |-> "rename", at |-> i] THEN renameFailed(i, rm)
    ELSE renamedThen(i, rm, renameFrom(i - 1, osRename(i, rm.disk), fault))

renameFrom(i, d, fault) ==
    IF i < 0 THEN [disk |-> d, err |-> FALSE, steps |-> << >>]
    ELSE IF ~d[i].exists THEN renameFrom(i - 1, d, fault)
    ELSE renameNext(i, removeNext(i, d, fault), fault)

Roll(r, d, fault) ==
    LET res == renameFrom(r.maxFiles - 2, d, fault)
    IN  [rolling |-> [Close(r) EXCEPT !.firstTime = FALSE],
         disk |-> res.disk, err |-> res.err, steps |-> res.steps]

\* open: OpenFile for appending, Create when the file does not exist
open(r, d, fault) ==
    IF r.currentWriter THEN [rolling |-> r, disk |-> d, err |-> FALSE]
    ELSE IF fault.op = "open" THEN [rolling |-> r, disk |-> d, err |-> TRUE]
    ELSE [rolling |-> [r EXCEPT !.currentWriter = TRUE],
          disk |-> [d EXCEPT ![0] = IF @.exists THEN @ ELSE EmptyFile],
          err |-> FALSE]

\* a failed rotation is forgotten and the record written all the same
RollingFileAppender_Log_swallow(r, d, appenderLevel, l, n, bytes, fault) ==
    IF ~checkLevel(appenderLevel, l)
    THEN [rolling |-> r, disk |-> d, err |-> FALSE, wrote |-> FALSE,
          needed |-> FALSE, size |-> 0, passed |-> FALSE, steps |-> << >>]
    ELSE LET need == needsRoll(r, d)
             a == IF need THEN Roll(r, d, fault)
                  ELSE [rolling |-> r, disk |-> d, err |-> FALSE, steps |-> << >>]
             b == open(a.rolling, a.disk, NoFault)
         IN  [rolling |-> b.rolling,
              disk |-> [b.disk EXCEPT ![0].data =
                            Append(@, [n |-> n, bytes |-> bytes])],
              err |-> FALSE, wrote |-> TRUE, needed |-> need,
              size |-> Size(d[0]), passed |-> TRUE, steps |-> a.steps]

\* mutex.Lock() in Close, Roll and open waits until no read lock is held
mutexFree(r) == r.readers = 0

\* a call of Log that comes to Roll or to open
takesLock(r, d, appenderLevel, l) ==
    /\ checkLevel(appenderLevel, l)
    /\ needsRoll(r, d) \/ ~r.currentWriter

\* RollingFileAppender.Log of a record of the given level whose formatted
\* line has the given number of bytes, as the n-th write; the exits on a
\* failed Write return with the read lock held
\* the part of Log that rolls: a is what it leaves
rollIfNeeded(r, d, fault) ==
    IF needsRoll(r, d) THEN Roll(r, d, fault)
    ELSE [rolling |-> r, disk |-> d, err |-> FALSE, steps |-> << >>]

\* the part of Log that opens the file when there is no writer
openAfter(a, fault) ==
    IF a.err THEN a ELSE open(a.rolling, a.disk, fault)

\* the part of Log that writes the record: b is what the roll and the open
\* have left, steps the calls the roll has made
writeAfter(b, steps, need, size, n, bytes, fault) ==
    IF b.err
    THEN [rolling |-> b.rolling, disk |-> b.disk, err |-> TRUE,
          wrote |-> FALSE, needed |-> need, size |-> size,
          passed |-> TRUE, steps |-> steps]
    ELSE IF fault = WriteFault
    THEN [rolling |-> [b.rolling EXCEPT !.readers = @ + 1],
          disk |-> b.disk, err |-> TRUE,
          wrote |-> FALSE, needed |-> need, size |-> size,
          passed |-> TRUE, steps |-> steps]
    ELSE [rolling |-> b.rolling,
          disk |-> [b.disk EXCEPT ![0].data =
                        Append(@, [n |-> n, bytes |-> bytes])],
          err |-> FALSE, wrote |-> TRUE, needed |-> need,
          size |-> size, passed |-> TRUE, steps |-> steps]

rollThenWrite(a, need, size, n, bytes, fault) ==
    writeAfter(openAfter(a, fault), a.steps, need, size, n, bytes, fault)

RollingFileAppender_Log(r, d, appenderLevel, l, n, bytes, fault) ==
    IF ~checkLevel(appenderLevel, l)
    THEN [rolling |-> r, disk |-> d, err |-> FALSE, wrote |-> FALSE,
          needed |-> FALSE, size |-> 0, passed |-> FALSE, steps |-> << >>]
    ELSE rollThenWrite(rollIfNeeded(r, d, fault), needsRoll(r, d), Size(d[0]),
                       n, bytes, fault)

\* what a call of the RollingFileAppender leaves in rollLog
noteLog(g, res, bytes, fault) ==
    [g EXCEPT !.writes = IF res.wrote THEN @ + 1 ELSE @,
              !.written = IF res.wrote THEN @ + bytes ELSE @,
              !.reached = IF res.passed THEN @ + 1 ELSE @,
              !.ops = @ + 1,
              !.rolls = IF res.needed THEN @ + 1 ELSE @,
              !.last = [op |-> "Log", needed |-> res.needed, err |-> res.err,
                        wrote |-> res.wrote, bytes |-> bytes,
                        fault |-> fault, steps |-> res.steps]]

\* the state of the appenders after init(): no error channel, a stderr
\* appender in the chain, logMutex free
ChainInit ==
    /\ logErrors = NoChan
    /\ sink = [a \in Appenders |-> NewAppender]
    /\ logMutex = ""
    /\ lookups = [gen |-> 0, got |-> {}]

\* a RollingFileAppender made with NewRollingFileAppender(..., 1024, 2) in
\* a directory that holds none of its files
SinksInit ==
    /\ ChainInit
    /\ rolling = NewRollingFileAppender(MinFileSize, 2)
    /\ disk = [g \in Generations |-> NoFile]
    /\ rollLog = NoRollLog

(***************************************************************************)
(* The state after the package's init(): the default logger at INFO with   *)
(* no buffer, no named logger, the consumer goroutine started.             *)
(***************************************************************************)
InitPipeline ==
    /\ level = [i \in Inst |-> IF i = defaultLogger THEN INFO ELSE DEFAULT]
    /\ tagLevels = [i \in Inst |-> NilMap]
    /\ buffer = [i \in Inst |-> NilRing]
    /\ numInst = 1
    /\ loggers = [n \in Names |-> NoLogger]
    /\ known = {defaultLogger}
    /\ incomingChannel = << >>
    /\ logged = 0
    /\ processed = 0
    /\ enableVerbose = 0
    /\ waiter = 0
    /\ cpc = "select"
    /\ current = NoRecord
    /\ crashed = FALSE
    /\ pc = [t \in Threads |-> "idle"]
    /\ local = [t \in Threads |-> NoLocal]
    /\ wg = [t \in Threads |-> 0]
    /\ tasks = {}
    /\ history = << >>
    /\ enq = 0
    /\ returned = {}
    /\ replayed = [t \in Threads |-> {}]
    /\ pauseHeld = FALSE
    /\ pausedSeqs = {}
    /\ stopReceived = FALSE
    /\ stopReturned = FALSE
    /\ lastCheck = NoCheck
    /\ calls = 0
    /\ appenders = <<"stderr">>
    /\ inserted = [i \in Inst |-> << >>]

Init == InitPipeline /\ SinksInit

Idle(t) == ~crashed /\ pc[t] = "idle"

(***************************************************************************)
(* GetLogger: look the name up under the read lock; when absent allocate   *)
(* a logger with the default logger's buffer length, then store it under   *)
(* the write lock.                                                         *)
(***************************************************************************)
GetLogger(t, name) ==
    /\ Idle(t)
    /\ IF loggers[name] # NoLogger
       THEN /\ known' = known \cup {loggers[name]}
            /\ lookups' = [lookups EXCEPT !.got = @ \cup
                   {[name |-> name, inst |-> loggers[name], gen |-> lookups.gen]}]
            /\ UNCHANGED <<pc, local>>
       ELSE /\ numInst < MaxInst
            /\ pc' = [pc EXCEPT ![t] = "getlogger_new"]
            /\ local' = [local EXCEPT ![t] = [NoLocal EXCEPT !.name = name]]
            /\ UNCHANGED <<known, lookups>>
    /\ calls' = calls + 1
    /\ UNCHANGED <<logErrors, sink, logMutex, rolling, disk, rollLog, level, tagLevels, buffer, numInst, loggers, queueVars,
                   processed, enableVerbose, waiter, cpc, current, crashed,
                   wg, tasks, history, ghostVars,
                   appenders>>

\* expects the lock
setBufferLengthImpl(buf, length) ==
    IF length = 0 THEN NilRing
    ELSE IF length # RingLen(buf) THEN RingNew(length)
    ELSE buf

GetLogger_new(t) ==
    /\ ~crashed
    /\ pc[t] = "getlogger_new"
    /\ numInst < MaxInst
    /\ LET i == numInst + 1
       IN  /\ numInst' = i
           /\ level' = [level EXCEPT ![i] = DEFAULT]
           /\ tagLevels' = [tagLevels EXCEPT ![i] = NilMap]
           /\ buffer' = [buffer EXCEPT
                  ![i] = setBufferLengthImpl(NilRing, RingLen(buffer[defaultLogger]))]
           /\ local' = [local EXCEPT ![t].inst = i]
    /\ pc' = [pc EXCEPT ![t] = "getlogger_store"]
    /\ UNCHANGED <<sinkVars, loggers, known, queueVars, processed, enableVerbose,
                   waiter, cpc, current, crashed, wg, tasks, history,
                   ghostVars, calls,
                   appenders>>

GetLogger_store(t) ==
    /\ ~crashed
    /\ pc[t] = "getlogger_store"
    /\ loggers' = [loggers EXCEPT ![local[t].name] = local[t].inst]
    /\ known' = known \cup {local[t].inst}
    /\ lookups' = [lookups EXCEPT !.got = @ \cup
           {[name |-> local[t].name, inst |-> local[t].inst, gen |-> lookups.gen]}]
    /\ pc' = [pc EXCEPT ![t] = "idle"]
    /\ local' = [local EXCEPT ![t] = NoLocal]
    /\ UNCHANGED <<logErrors, sink, logMutex, rolling, disk, rollLog, level, tagLevels, buffer, numInst, queueVars, processed,
                   enableVerbose, waiter, cpc, current, crashed, wg, tasks,
                   history, ghostVars, calls,
                   appenders>>

(***************************************************************************)
(* AddAppender                                                             *)
(***************************************************************************)
AddAppender(t, appender) ==
    /\ Idle(t)
    /\ logMutex = ""
    /\ appenders' = Append(appenders, appender)
    /\ sink' = [sink EXCEPT ![appender].removed = FALSE]
    /\ calls' = calls + 1
    /\ UNCHANGED <<lookups, logErrors, logMutex, rolling, disk, rollLog, level, tagLevels, buffer, numInst, loggers, known,
                   queueVars, consumerVars, enableVerbose, pc, local, wg,
                   tasks, ghostVars>>

(***************************************************************************)
(* ClearAppenders: PauseLogging, then the appenders are closed and the     *)
(* list emptied with logMutex held, then RestartLogging.                   *)
(***************************************************************************)
\* the appenders of a list, as a set
chain(apps) == {apps[j] : j \in 1..Len(apps)}

\* the call goes to logMutex.Lock() without PauseLogging()
ClearAppenders_nopause(t) ==
    /\ Idle(t)
    /\ pc' = [pc EXCEPT ![t] = "clear_lock"]
    /\ local' = [local EXCEPT ![t] = [NoLocal EXCEPT !.op = "ClearAppenders"]]
    /\ calls' = calls + 1
    /\ UNCHANGED <<sinkVars, configVars, queueVars, consumerVars,
                   enableVerbose, wg, tasks, ghostVars>>

\* PauseLogging(): the send on stateChannel
ClearAppenders(t) ==
    /\ Idle(t)
    /\ pc' = [pc EXCEPT ![t] = "state_send"]
    /\ local' = [local EXCEPT ![t] =
                    [NoLocal EXCEPT !.st = paused, !.op = "ClearAppenders",
                                    !.cont = "clear_lock"]]
    /\ calls' = calls + 1
    /\ UNCHANGED <<sinkVars, configVars, queueVars, consumerVars,
                   enableVerbose, wg, tasks, ghostVars>>

\* the call goes on without the lock
ClearAppenders_Lock_skip(t) ==
    /\ ~crashed
    /\ pc[t] = "clear_lock"
    /\ pc' = [pc EXCEPT ![t] = "clear_locked"]
    /\ UNCHANGED <<sinkVars, configVars, queueVars, consumerVars,
                   enableVerbose, local, wg, tasks, ghostVars, calls>>

\* logMutex.Lock()
ClearAppenders_Lock(t) ==
    /\ ~crashed
    /\ pc[t] = "clear_lock"
    /\ logMutex = ""
    /\ logMutex' = t
    /\ pc' = [pc EXCEPT ![t] = "clear_locked"]
    /\ UNCHANGED <<lookups, logErrors, sink, rolling, disk, rollLog, configVars,
                   queueVars, consumerVars, enableVerbose, local, wg, tasks,
                   ghostVars, calls>>

\* the list keeps its appenders
emptied_keep(apps) == apps

\* appenders = make([]LogAppender, 0)
emptied(apps) == << >>

\* the loop that closes the closable appenders, the new empty list,
\* logMutex.Unlock(), and the send of RestartLogging()
ClearAppenders_locked(t) ==
    /\ ~crashed
    /\ pc[t] = "clear_locked"
    /\ (\E a \in chain(appenders) : Closable(a)) => mutexFree(rolling)
    /\ rolling' = IF \E a \in chain(appenders) : Closable(a)
                  THEN Close(rolling) ELSE rolling
    /\ sink' = [a \in Appenders |->
                  IF a \in chain(appenders) THEN [sink[a] EXCEPT !.removed = TRUE]
                  ELSE sink[a]]
    /\ appenders' = emptied(appenders)
    /\ logMutex' = ""
    /\ pc' = [pc EXCEPT ![t] = "state_send"]
    /\ local' = [local EXCEPT ![t] = [@ EXCEPT !.st = running, !.cont = "idle"]]
    /\ UNCHANGED <<lookups, logErrors, disk, rollLog, level, tagLevels, buffer, numInst,
                   loggers, known, queueVars, consumerVars, enableVerbose, wg,
                   tasks, ghostVars, calls>>

(***************************************************************************)
(* Calls on the RollingFileAppender itself.                                *)
(***************************************************************************)
\* appender.Log(record) for a record of level l whose line has the given
\* number of bytes
LogRolling(l, bytes, fault) ==
    /\ ~crashed
    /\ takesLock(rolling, disk, sink["rolling"].level, l) => mutexFree(rolling)
    /\ LET res == RollingFileAppender_Log(rolling, disk, sink["rolling"].level,
                                          l, rollLog.writes + 1, bytes, fault)
       IN  /\ rolling' = res.rolling
           /\ disk' = res.disk
           /\ rollLog' = noteLog(rollLog, res, bytes, fault)
    /\ calls' = calls + 1
    /\ UNCHANGED <<lookups, logErrors, sink, logMutex, configVars, queueVars,
                   consumerVars, enableVerbose, pc, local, wg, tasks,
                   ghostVars>>

\* appender.Roll()
RollRolling(fault) ==
    /\ ~crashed
    /\ mutexFree(rolling)
    /\ LET res == Roll(rolling, disk, fault)
       IN  /\ rolling' = res.rolling
           /\ disk' = res.disk
           /\ rollLog' = [rollLog EXCEPT
                  !.ops = @ + 1,
                  !.rolls = @ + 1,
                  !.last = [op |-> "Roll", needed |-> TRUE, err |-> res.err,
                            wrote |-> FALSE, bytes |-> 0, fault |-> fault,
                            steps |-> res.steps]]
    /\ calls' = calls + 1
    /\ UNCHANGED <<lookups, logErrors, sink, logMutex, configVars, queueVars,
                   consumerVars, enableVerbose, pc, local, wg, tasks,
                   ghostVars>>

(***************************************************************************)
(* ClearLoggers: PauseLogging, a new empty registry with logMutex held,    *)
(* RestartLogging.                                                         *)
(***************************************************************************)
\* PauseLogging(): the send on stateChannel
ClearLoggers(t) ==
    /\ Idle(t)
    /\ pc' = [pc EXCEPT ![t] = "state_send"]
    /\ local' = [local EXCEPT ![t] =
                    [NoLocal EXCEPT !.st = paused, !.op = "ClearLoggers",
                                    !.cont = "clearloggers_lock"]]
    /\ calls' = calls + 1
    /\ UNCHANGED <<sinkVars, configVars, queueVars, consumerVars,
                   enableVerbose, wg, tasks, ghostVars>>

\* logMutex.Lock(); loggers = make(map[string]*LoggerImpl);
\* logMutex.Unlock(), and the send of RestartLogging()
ClearLoggers_locked(t) ==
    /\ ~crashed
    /\ pc[t] = "clearloggers_lock"
    /\ logMutex = ""
    /\ loggers' = [n \in Names |-> NoLogger]
    /\ lookups' = [lookups EXCEPT !.gen = @ + 1]
    /\ pc' = [pc EXCEPT ![t] = "state_send"]
    /\ local' = [local EXCEPT ![t] = [@ EXCEPT !.st = running, !.cont = "idle"]]
    /\ UNCHANGED <<logErrors, sink, logMutex, rolling, disk, rollLog, level,
                   tagLevels, buffer, numInst, known, appenders, queueVars,
                   consumerVars, enableVerbose, wg, tasks, ghostVars, calls>>

(***************************************************************************)
(* CaptureLoggingErrors, and the goroutine of the caller that reads the    *)
(* channel it gave.                                                        *)
(***************************************************************************)
CaptureLoggingErrors(t, n) ==
    /\ Idle(t)
    /\ logMutex = ""
    /\ logErrors' = MakeChan(n)
    /\ calls' = calls + 1
    /\ UNCHANGED <<lookups, sink, logMutex, rolling, disk, rollLog, configVars,
                   queueVars, consumerVars, enableVerbose, pc, local, wg,
                   tasks, ghostVars>>

\* err := <-errors : takes the oldest error, or blocks until one is sent
receiveError ==
    /\ ~crashed
    /\ logErrors.set
    /\ ~logErrors.waiting
    /\ logErrors' = IF logErrors.q # << >>
                    THEN [logErrors EXCEPT !.got = Append(@, Head(logErrors.q)),
                                           !.q = Tail(@)]
                    ELSE [logErrors EXCEPT !.waiting = TRUE]
    /\ UNCHANGED <<lookups, sink, logMutex, rolling, disk, rollLog, configVars,
                   queueVars, consumerVars, enableVerbose, pc, local, wg,
                   tasks, ghostVars, calls>>

\* appender.SetLevel(l)
SetLevel(t, appender, l) ==
    /\ Idle(t)
    /\ sink' = [sink EXCEPT ![appender].level = l]
    /\ calls' = calls + 1
    /\ UNCHANGED <<lookups, logErrors, logMutex, rolling, disk, rollLog, configVars,
                   queueVars, consumerVars, enableVerbose, pc, local, wg,
                   tasks, ghostVars>>

(***************************************************************************)
(* EnableVerboseLogging, DisableVerboseLogging                             *)
(***************************************************************************)
StoreVerbose(t, v) ==
    /\ Idle(t)
    /\ enableVerbose' = v
    /\ calls' = calls + 1
    /\ UNCHANGED <<sinkVars, configVars, queueVars, consumerVars, pc, local,
                   wg, tasks, ghostVars>>

EnableVerboseLogging(t) == StoreVerbose(t, 1)

DisableVerboseLogging(t) == StoreVerbose(t, 0)

(***************************************************************************)
(* SetBufferLength                                                         *)
(***************************************************************************)
SetBufferLength(t, logger, length) ==
    /\ Idle(t)
    /\ logger \in known
    /\ buffer' = [buffer EXCEPT ![logger] = setBufferLengthImpl(@, length)]
    /\ inserted' = [inserted EXCEPT ![logger] =
                        IF setBufferLengthImpl(buffer[logger], length) = buffer[logger]
                        THEN @ ELSE << >>]
    /\ calls' = calls + 1
    /\ UNCHANGED <<sinkVars, level, tagLevels, numInst, loggers, known, queueVars,
                   processed, enableVerbose, waiter, cpc, current, crashed,
                   pc, local, wg, tasks, history, returned, replayed,
                   pauseHeld, pausedSeqs, stopReceived, stopReturned,
                   lastCheck, appenders>>

(***************************************************************************)
(* Flushing.  flushBuffer detaches a logger's buffer, replaces it by an    *)
(* empty ring of the same length and starts a goroutine that re-enqueues   *)
(* the detached records; with no buffer it calls wait.Done() at once.      *)
(***************************************************************************)
\* every level change flushes the whole registry
flushTargets_all(logger) ==
    {loggers[n] : n \in {m \in Names : loggers[m] # NoLogger}} \cup {defaultLogger}

\* a change of the default logger flushes every logger ever handed out
flushTargets_known(logger) ==
    IF logger = defaultLogger THEN known ELSE {logger}

\* the loggers a level change of `logger` flushes
flushTargets(logger) ==
    IF logger = defaultLogger
    THEN {loggers[n] : n \in {m \in Names : loggers[m] # NoLogger}} \cup {defaultLogger}
    ELSE {logger}

\* the logger keeps the detached ring
flushBuffer_keep(buf) == buf

\* logger.buffer = ring.New(oldBuffer.Len())
flushBuffer(buf) == IF buf # NilRing THEN RingNew(RingLen(buf)) ELSE buf

\* the enqueue numbers of the records a ring holds
detached(buf) ==
    IF buf = NilRing THEN {}
    ELSE {buf.vals[j].seq : j \in {m \in 1..RingLen(buf) : buf.vals[m] # NoRecord}}

flushGoroutines(t, targets) ==
    {[owner |-> t, inst |-> i, recs |-> SkipNil(RingDo(buffer[i])), counted |-> FALSE] :
        i \in {j \in targets : buffer[j] # NilRing}}

\* the part of SetLogLevel / SetTagLevel after the field is assigned, up
\* to logMutex.Unlock()
flushLocked(t, logger) ==
    /\ buffer' = [i \in Inst |->
                    IF i \in flushTargets(logger) THEN flushBuffer(buffer[i])
                    ELSE buffer[i]]
    /\ tasks' = tasks \cup flushGoroutines(t, flushTargets(logger))
    /\ wg' = [wg EXCEPT ![t] = Cardinality(flushGoroutines(t, flushTargets(logger)))]
    /\ replayed' = [replayed EXCEPT ![t] = {}]
    /\ local' = [local EXCEPT ![t] =
           [NoLocal EXCEPT !.inst = logger,
                           !.pre = UNION {detached(buffer[i]) : i \in flushTargets(logger)}]]
    /\ inserted' = [i \in Inst |->
                      IF i \in flushTargets(logger) /\ buffer[i] # NilRing
                      THEN << >> ELSE inserted[i]]
    /\ pc' = [pc EXCEPT ![t] = "flush_wait"]
    /\ lastCheck' = NoCheck

SetLogLevel(t, logger, l) ==
    /\ Idle(t)
    /\ logger \in known
    /\ level' = [level EXCEPT ![logger] = l]
    /\ flushLocked(t, logger)
    /\ calls' = calls + 1
    /\ UNCHANGED <<sinkVars, tagLevels, numInst, loggers, known, queueVars, processed,
                   enableVerbose, waiter, cpc, current, crashed, history,
                   returned, pauseHeld, pausedSeqs, stopReceived,
                   stopReturned, appenders>>

SetDefaultLogLevel(t, l) == SetLogLevel(t, defaultLogger, l)

\* a named logger writes through to the default logger's map
SetTagLevel_shared(t, logger, tag, l) ==
    /\ Idle(t)
    /\ logger \in known
    /\ tagLevels' = [tagLevels EXCEPT ![logger] = MapPut(@, tag, l),
                                      ![defaultLogger] = MapPut(@, tag, l)]
    /\ flushLocked(t, logger)
    /\ calls' = calls + 1
    /\ UNCHANGED <<sinkVars, level, numInst, loggers, known, queueVars, processed,
                   enableVerbose, waiter, cpc, current, crashed, history,
                   returned, pauseHeld, pausedSeqs, stopReceived,
                   stopReturned, appenders>>

SetTagLevel(t, logger, tag, l) ==
    /\ Idle(t)
    /\ logger \in known
    /\ tagLevels' = [tagLevels EXCEPT ![logger] = MapPut(@, tag, l)]
    /\ flushLocked(t, logger)
    /\ calls' = calls + 1
    /\ UNCHANGED <<sinkVars, level, numInst, loggers, known, queueVars, processed,
                   enableVerbose, waiter, cpc, current, crashed, history,
                   returned, pauseHeld, pausedSeqs, stopReceived,
                   stopReturned, appenders>>

\* the call returns without wait.Wait()
flushWait_nowait(t) ==
    /\ ~crashed
    /\ pc[t] = "flush_wait"
    /\ pc' = [pc EXCEPT ![t] = "idle"]
    /\ local' = [local EXCEPT ![t] = NoLocal]
    /\ returned' = returned \cup replayed[t]
    /\ UNCHANGED <<sinkVars, configVars, queueVars, processed, enableVerbose, waiter,
                   cpc, current, crashed, wg, tasks, history,
                   replayed, pauseHeld, pausedSeqs, stopReceived,
                   stopReturned, lastCheck, calls, inserted>>

\* wait.Wait() at the end of SetLogLevel / SetTagLevel
flushWait(t) ==
    /\ ~crashed
    /\ pc[t] = "flush_wait"
    /\ wg[t] = 0
    /\ pc' = [pc EXCEPT ![t] = "idle"]
    /\ local' = [local EXCEPT ![t] = NoLocal]
    /\ returned' = returned \cup replayed[t]
    /\ UNCHANGED <<sinkVars, configVars, queueVars, processed, enableVerbose, waiter,
                   cpc, current, crashed, wg, tasks, history,
                   replayed, pauseHeld, pausedSeqs, stopReceived,
                   stopReturned, lastCheck, calls,
                   inserted>>

\* the increment of logged is lost
nextLogNum_lost(n) == n

\* atomic.AddUint64(&logged, 1)
nextLogNum(n) == n + 1

\* the goroutine of flushBuffer: atomic.AddUint64(&logged, 1) for the next
\* record of the detached ring
flushBuffer_count(k) ==
    /\ ~crashed
    /\ k \in tasks
    /\ k.recs # << >>
    /\ ~k.counted
    /\ logged' = nextLogNum(logged)
    /\ tasks' = (tasks \ {k}) \cup {[k EXCEPT !.counted = TRUE]}
    /\ UNCHANGED <<sinkVars, configVars, incomingChannel, enq, processed,
                   enableVerbose, waiter, cpc, current, crashed, pc, local,
                   wg, history, ghostVars, calls>>

\* the record overtakes the records already in the channel
ChanSend_lifo(q, rec) == <<rec>> \o q

\* incomingChannel <- record (blocks while the channel is full)
ChanSend(q, rec) == Append(q, rec)

flushBuffer_send(k) ==
    /\ ~crashed
    /\ k \in tasks
    /\ k.recs # << >>
    /\ k.counted
    /\ Len(incomingChannel) < QueueCap
    /\ enq' = enq + 1
    /\ incomingChannel' =
          ChanSend(incomingChannel, [Head(k.recs) EXCEPT !.replay = TRUE, !.seq = enq + 1])
    /\ tasks' = (tasks \ {k}) \cup {[k EXCEPT !.counted = FALSE, !.recs = Tail(@)]}
    /\ replayed' = [replayed EXCEPT ![k.owner] = @ \cup {enq + 1}]
    /\ pausedSeqs' = IF pauseHeld THEN pausedSeqs \cup {enq + 1} ELSE pausedSeqs
    /\ UNCHANGED <<sinkVars, configVars, logged, processed, enableVerbose, waiter,
                   cpc, current, crashed, pc, local, wg, history, returned,
                   pauseHeld, stopReceived, stopReturned, lastCheck, calls,
                   inserted>>

\* wait.Done() at the end of the goroutine
flushBuffer_done(k) ==
    /\ ~crashed
    /\ k \in tasks
    /\ k.recs = << >>
    /\ tasks' = tasks \ {k}
    /\ wg' = [wg EXCEPT ![k.owner] = @ - 1]
    /\ UNCHANGED <<sinkVars, configVars, queueVars, processed, enableVerbose, waiter,
                   cpc, current, crashed, pc, local, history, ghostVars,
                   calls>>

(***************************************************************************)
(* CheckLevel                                                              *)
(***************************************************************************)
CheckLevel(t, logger, l, tags) ==
    /\ Idle(t)
    /\ logger \in known
    /\ lastCheck' = [logger |-> logger, l |-> l, tags |-> tags,
                     passed |-> checkLevelWithTags(level, tagLevels, logger, l, tags)]
    /\ calls' = calls + 1
    /\ UNCHANGED <<sinkVars, configVars, queueVars, consumerVars, enableVerbose, pc,
                   local, wg, tasks, returned, replayed, pauseHeld,
                   pausedSeqs, stopReceived, stopReturned,
                   inserted>>

(***************************************************************************)
(* Producing a record.  logwithformat counts the record in logged, then    *)
(* sends it on incomingChannel; the send blocks while the channel is full. *)
(***************************************************************************)
\* the record as logwithformat makes it, with the verdict of the
\* configuration at that moment
logRecord(n, logger, l, tags, t) ==
    [NewLogRecord(n, logger, l, tags, t) EXCEPT
        !.asLogged = checkLevelWithTags(level, tagLevels, logger, l, tags)]

\* the verbose flag is not consulted
logwithformat_always(t, logger, l, tags) ==
    /\ Idle(t)
    /\ logger \in known
    /\ calls' = calls + 1
    /\ logged' = nextLogNum(logged)
    /\ local' = [local EXCEPT ![t] =
           [NoLocal EXCEPT !.rec =
               logRecord(nextLogNum(logged), logger, l, tags, t)]]
    /\ pc' = [pc EXCEPT ![t] = "log_send"]
    /\ UNCHANGED <<sinkVars, configVars, incomingChannel, enq, consumerVars,
                   enableVerbose, wg, tasks, ghostVars>>

logwithformat(t, logger, l, tags) ==
    /\ Idle(t)
    /\ logger \in known
    /\ calls' = calls + 1
    /\ IF l = VERBOSE /\ enableVerbose # 1
       THEN UNCHANGED <<logged, pc, local>>
       ELSE /\ logged' = nextLogNum(logged)
            /\ local' = [local EXCEPT ![t] =
                   [NoLocal EXCEPT !.rec =
                       logRecord(nextLogNum(logged), logger, l, tags, t)]]
            /\ pc' = [pc EXCEPT ![t] = "log_send"]
    /\ UNCHANGED <<sinkVars, configVars, incomingChannel, enq, consumerVars,
                   enableVerbose, wg, tasks, ghostVars>>

\* the send does not wait for a free slot
logwithformat_send_overflow(t) ==
    /\ ~crashed
    /\ pc[t] = "log_send"
    /\ enq' = enq + 1
    /\ incomingChannel' = ChanSend(incomingChannel, [local[t].rec EXCEPT !.seq = enq + 1])
    /\ returned' = returned \cup {enq + 1}
    /\ pausedSeqs' = IF pauseHeld THEN pausedSeqs \cup {enq + 1} ELSE pausedSeqs
    /\ pc' = [pc EXCEPT ![t] = "idle"]
    /\ local' = [local EXCEPT ![t] = NoLocal]
    /\ UNCHANGED <<sinkVars, configVars, logged, consumerVars, enableVerbose, wg,
                   tasks, replayed, pauseHeld, stopReceived, stopReturned,
                   lastCheck, calls,
                   inserted>>

logwithformat_send(t) ==
    /\ ~crashed
    /\ pc[t] = "log_send"
    /\ Len(incomingChannel) < QueueCap
    /\ enq' = enq + 1
    /\ incomingChannel' = ChanSend(incomingChannel, [local[t].rec EXCEPT !.seq = enq + 1])
    /\ returned' = returned \cup {enq + 1}
    /\ pausedSeqs' = IF pauseHeld THEN pausedSeqs \cup {enq + 1} ELSE pausedSeqs
    /\ pc' = [pc EXCEPT ![t] = "idle"]
    /\ local' = [local EXCEPT ![t] = NoLocal]
    /\ UNCHANGED <<sinkVars, configVars, logged, consumerVars, enableVerbose, wg,
                   tasks, replayed, pauseHeld, stopReceived, stopReturned,
                   lastCheck, calls,
                   inserted>>

(***************************************************************************)
(* The consumer goroutine processIncoming.                                 *)
(***************************************************************************)
\* case record := <-incomingChannel
processIncoming_record ==
    /\ ~crashed
    /\ cpc = "select"
    /\ incomingChannel # << >>
    /\ current' = Head(incomingChannel)
    /\ incomingChannel' = Tail(incomingChannel)
    /\ cpc' = "process"
    /\ UNCHANGED <<sinkVars, configVars, logged, enq, processed, enableVerbose, waiter,
                   crashed, pc, local, wg, tasks, history, ghostVars, calls>>

\* a record of any level is buffered
fate_bufferAll(rec) ==
    IF checkLevelWithTags(level, tagLevels, rec.logger, rec.level, rec.tags)
    THEN "dispatched"
    ELSE IF buffer[rec.logger] # NilRing
    THEN "buffered"
    ELSE "dropped"

\* the verdict is the one the record had when it was logged
fate_asLogged(rec) ==
    IF rec.asLogged
    THEN "dispatched"
    ELSE IF buffer[rec.logger] # NilRing /\ rec.level > VERBOSE
    THEN "buffered"
    ELSE "dropped"

\* what processLogRecord does with a record under the current configuration
fate(rec) ==
    IF checkLevelWithTags(level, tagLevels, rec.logger, rec.level, rec.tags)
    THEN "dispatched"
    ELSE IF buffer[rec.logger] # NilRing /\ rec.level > VERBOSE
    THEN "buffered"
    ELSE "dropped"

\* the appender's Log returns an error: ErrorAppender always does
LogFails(appender) == appender = "error"

\* the bytes of the formatted line of a record that comes through the
\* pipeline
PipeBytes == 512

\* appender.Log(record) followed by logError(err), for one appender of the
\* chain; st carries the rolling appender, its files, the error channel and
\* the calls of Log made so far for this record
\* what the appender's Log has done, res, taken into the state of the
\* dispatch
afterLog(appender, record, st, res) ==
    [st EXCEPT
        !.rolling = res.rolling,
        !.disk = res.disk,
        !.rollLog = IF appender = "rolling"
                    THEN noteLog(@, res, PipeBytes, st.fault) ELSE @,
        !.logs = Append(@, [appender |-> appender, err |-> res.err,
                            wrote |-> res.wrote]),
        !.logErrors = IF res.err
                      THEN logError(@, [id |-> record.id,
                                        appender |-> appender])
                      ELSE @]

Log(appender, record, st) ==
    afterLog(appender, record, st,
        IF appender = "rolling"
        THEN RollingFileAppender_Log(st.rolling, st.disk,
                 sink[appender].level, record.level,
                 st.rollLog.writes + 1, PipeBytes, st.fault)
        ELSE [rolling |-> st.rolling, disk |-> st.disk,
              err |-> LogFails(appender),
              wrote |-> \/ ~FiltersByLevel(appender)
                        \/ checkLevel(sink[appender].level, record.level),
              needed |-> FALSE, size |-> 0, passed |-> TRUE,
              steps |-> << >>])

\* the loop ends at the first appender that returns an error
RECURSIVE logToAppenders_stop(_, _, _)
logToAppenders_stop(apps, record, st) ==
    IF apps = << >> THEN st
    ELSE LET next == Log(Head(apps), record, st)
         IN  IF next.logs[Len(next.logs)].err THEN next
             ELSE logToAppenders_stop(Tail(apps), record, next)

\* for _, appender := range appenders { err := appender.Log(record);
\* logError(err) }
RECURSIVE logToAppenders(_, _, _)
logToAppenders(apps, record, st) ==
    IF apps = << >> THEN st
    ELSE logToAppenders(Tail(apps), record, Log(Head(apps), record, st))

\* the rotation and open failures a dispatch to this chain can meet
ChainFaults(apps) ==
    IF \E j \in 1..Len(apps) : apps[j] = "rolling" THEN Faults ELSE {NoFault}

\* SetLogLevel / SetTagLevel keep the lock until wait.Wait() has returned
logMutexFree_heldInWait ==
    logMutex = "" /\ \A t \in Threads : pc[t] # "flush_wait"

\* logMutex.RLock() goes through: no caller holds the registry lock
logMutexFree == logMutex = ""

processLogRecord ==
    /\ ~crashed
    /\ cpc = "process"
    /\ logMutexFree
    /\ (/\ fate(current) = "dispatched"
        /\ "rolling" \in chain(appenders)
        /\ takesLock(rolling, disk, sink["rolling"].level, current.level))
          => mutexFree(rolling)
    /\ \E fault \in ChainFaults(appenders) :
          LET st0 == [rolling |-> rolling, disk |-> disk, rollLog |-> rollLog,
                      logErrors |-> logErrors, logs |-> << >>, fault |-> fault]
              st == IF fate(current) = "dispatched"
                    THEN logToAppenders(appenders, current, st0) ELSE st0
          IN  /\ history' = Append(history,
                                [rec |-> current, fate |-> fate(current),
                                 logs |-> st.logs])
              /\ rolling' = st.rolling
              /\ disk' = st.disk
              /\ rollLog' = st.rollLog
              /\ logErrors' = st.logErrors
    /\ buffer' = IF fate(current) = "buffered"
                 THEN [buffer EXCEPT ![current.logger] = RingInsert(@, current)]
                 ELSE buffer
    /\ inserted' = IF fate(current) = "buffered"
                   THEN [inserted EXCEPT ![current.logger] = Append(@, current.seq)]
                   ELSE inserted
    /\ processed' = processed + 1
    /\ current' = NoRecord
    /\ cpc' = "select"
    /\ UNCHANGED <<lookups, sink, logMutex, level, tagLevels, numInst, loggers, known,
                   queueVars, enableVerbose, waiter, crashed, pc, local, wg,
                   tasks, returned, replayed, pauseHeld, pausedSeqs,
                   stopReceived, stopReturned, lastCheck, calls, appenders>>

\* the paused case is missing from the main loop's switch
nextPosition_ignorePause(position, newState) ==
    IF newState = stopped THEN "stop_done"
    ELSE IF position = "select" THEN "select"
    ELSE (IF newState = running THEN "select" ELSE "paused")

\* in the sub-loop, stopped breaks out of the sub-loop only
nextPosition_stopResumes(position, newState) ==
    IF newState = stopped
    THEN (IF position = "paused" THEN "select" ELSE "stop_done")
    ELSE IF position = "select"
    THEN (IF newState = paused THEN "paused" ELSE "select")
    ELSE (IF newState = running THEN "select" ELSE "paused")

\* after stopped the consumer goes on receiving states in the sub-loop
nextPosition_stopListens(position, newState) ==
    IF newState = stopped THEN "paused"
    ELSE IF position = "select"
    THEN (IF newState = paused THEN "paused" ELSE "select")
    ELSE (IF newState = running THEN "select" ELSE "paused")

\* the position the consumer moves to when it receives a state
nextPosition(position, newState) ==
    IF newState = stopped THEN "stop_done"
    ELSE IF position = "select"
    THEN (IF newState = paused THEN "paused" ELSE "select")
    ELSE (IF newState = running THEN "select" ELSE "paused")

\* case newState := <-stateChannel, in the main loop or in the sub-loop of
\* the paused state; the channel is unbuffered, so this is also the moment
\* the sender's send completes
processIncoming_state(t) ==
    /\ ~crashed
    /\ cpc \in {"select", "paused"}
    /\ pc[t] = "state_send"
    /\ cpc' = nextPosition(cpc, local[t].st)
    /\ pauseHeld' = IF local[t].st = paused THEN TRUE
                    ELSE IF local[t].st = running THEN FALSE
                    ELSE pauseHeld
    /\ stopReceived' = (stopReceived \/ local[t].st = stopped)
    /\ pc' = [pc EXCEPT ![t] = IF local[t].st = stopped THEN "stop_wait"
                               ELSE local[t].cont]
    /\ local' = [local EXCEPT ![t] =
                    IF local[t].cont = "idle" THEN NoLocal
                    ELSE [NoLocal EXCEPT !.op = local[t].op,
                                         !.sig = Append(local[t].sig, local[t].st)]]
    /\ UNCHANGED <<sinkVars, configVars, queueVars, processed, enableVerbose, waiter,
                   current, crashed, wg, tasks, history, returned, replayed,
                   pausedSeqs, stopReturned, lastCheck, calls,
                   inserted>>

\* waiter.Done() then break loop; Done panics when the counter goes
\* negative, and the panic of a goroutine ends the process
processIncoming_done ==
    /\ ~crashed
    /\ cpc = "stop_done"
    /\ waiter' = waiter - 1
    /\ crashed' = (waiter - 1 < 0)
    /\ cpc' = IF waiter - 1 < 0 THEN "panicked" ELSE "exited"
    /\ UNCHANGED <<sinkVars, configVars, queueVars, processed, enableVerbose, current,
                   pc, local, wg, tasks, history, ghostVars, calls>>

(***************************************************************************)
(* PauseLogging, RestartLogging, StopLogging: a send on stateChannel.      *)
(***************************************************************************)
stateSend(t, st) ==
    /\ Idle(t)
    /\ pc' = [pc EXCEPT ![t] = "state_send"]
    /\ local' = [local EXCEPT ![t] = [NoLocal EXCEPT !.st = st]]
    /\ calls' = calls + 1
    /\ UNCHANGED <<sinkVars, configVars, queueVars, consumerVars, enableVerbose, wg,
                   tasks, ghostVars>>

PauseLogging(t) == stateSend(t, paused)

RestartLogging(t) == stateSend(t, running)

StopLogging(t) == stateSend(t, stopped)

\* a caller that pauses, sleeps and restarts: the call of PauseLogging()
PauseThenRestart(t) ==
    /\ Idle(t)
    /\ pc' = [pc EXCEPT ![t] = "state_send"]
    /\ local' = [local EXCEPT ![t] =
                    [NoLocal EXCEPT !.st = paused, !.op = "PauseThenRestart",
                                    !.cont = "pair_sleep"]]
    /\ calls' = calls + 1
    /\ UNCHANGED <<sinkVars, configVars, queueVars, consumerVars,
                   enableVerbose, wg, tasks, ghostVars>>

\* the end of the sleep and the call of RestartLogging()
PauseThenRestart_restart(t) ==
    /\ ~crashed
    /\ pc[t] = "pair_sleep"
    /\ pc' = [pc EXCEPT ![t] = "state_send"]
    /\ local' = [local EXCEPT ![t] = [@ EXCEPT !.st = running, !.cont = "idle"]]
    /\ UNCHANGED <<sinkVars, configVars, queueVars, consumerVars,
                   enableVerbose, wg, tasks, ghostVars, calls>>

\* waiter.Wait() in StopLogging
StopLogging_wait(t) ==
    /\ ~crashed
    /\ pc[t] = "stop_wait"
    /\ waiter = 0
    /\ pc' = [pc EXCEPT ![t] = "idle"]
    /\ stopReturned' = TRUE
    /\ UNCHANGED <<sinkVars, configVars, queueVars, consumerVars, enableVerbose, local,
                   wg, tasks, returned, replayed, pauseHeld, pausedSeqs,
                   stopReceived, lastCheck, calls,
                   inserted>>

(***************************************************************************)
(* Panic, Panicf, PanicWithTags, PanicWithTagsf: log a PANIC record, wait  *)
(* for it with WaitForProcessed, flush, wait for the flush goroutines,     *)
(* then panic.                                                             *)
(***************************************************************************)
\* the ids of the records a ring holds
held(buf) ==
    IF buf = NilRing THEN {}
    ELSE {buf.vals[j].id : j \in {m \in 1..RingLen(buf) : buf.vals[m] # NoRecord}}

\* logNum := logger.logwithformat(PANIC, ...), up to the send
Panic(t, logger, tags) ==
    /\ Idle(t)
    /\ logger \in known
    /\ calls' = calls + 1
    /\ logged' = nextLogNum(logged)
    /\ local' = [local EXCEPT ![t] =
           [NoLocal EXCEPT !.rec = logRecord(nextLogNum(logged), logger, PANIC, tags, t),
                           !.p = nextLogNum(logged),
                           !.pre = UNION {held(buffer[i]) : i \in Inst}]]
    /\ pc' = [pc EXCEPT ![t] = "panic_send"]
    /\ UNCHANGED <<sinkVars, configVars, incomingChannel, enq, consumerVars,
                   enableVerbose, wg, tasks, ghostVars>>

\* incomingChannel <- logRecord; return logNum
Panic_send(t) ==
    /\ ~crashed
    /\ pc[t] = "panic_send"
    /\ Len(incomingChannel) < QueueCap
    /\ enq' = enq + 1
    /\ incomingChannel' = ChanSend(incomingChannel, [local[t].rec EXCEPT !.seq = enq + 1])
    /\ returned' = returned \cup {enq + 1}
    /\ pausedSeqs' = IF pauseHeld THEN pausedSeqs \cup {enq + 1} ELSE pausedSeqs
    /\ pc' = [pc EXCEPT ![t] = "wfp_poll"]
    /\ local' = [local EXCEPT ![t].rec.seq = enq + 1]
    /\ UNCHANGED <<sinkVars, configVars, logged, consumerVars, enableVerbose, wg,
                   tasks, replayed, pauseHeld, stopReceived, stopReturned,
                   lastCheck, calls, inserted>>

\* the test that ends the loop of WaitForProcessed
processedIs(logNum, p) == logNum = p

\* WaitForProcessed(logNum): sleep and poll until the test holds
WaitForProcessed(t) ==
    /\ ~crashed
    /\ pc[t] = "wfp_poll"
    /\ processedIs(local[t].p, processed)
    /\ pc' = [pc EXCEPT ![t] = "panic_flush"]
    /\ UNCHANGED <<sinkVars, configVars, queueVars, consumerVars, enableVerbose, local,
                   wg, tasks, ghostVars, calls>>

\* logMutex.Lock(); flushAllLoggers(wait) or logger.flushBuffer(wait);
\* logMutex.Unlock()
Panic_flush(t) ==
    /\ ~crashed
    /\ pc[t] = "panic_flush"
    /\ LET logger == local[t].rec.logger
       IN  /\ buffer' = [i \in Inst |->
                            IF i \in flushTargets(logger) THEN flushBuffer(buffer[i])
                            ELSE buffer[i]]
           /\ tasks' = tasks \cup flushGoroutines(t, flushTargets(logger))
           /\ wg' = [wg EXCEPT ![t] = Cardinality(flushGoroutines(t, flushTargets(logger)))]
           /\ inserted' = [i \in Inst |->
                              IF i \in flushTargets(logger) /\ buffer[i] # NilRing
                              THEN << >> ELSE inserted[i]]
           /\ local' = [local EXCEPT ![t].flushed = flushTargets(logger)]
    /\ replayed' = [replayed EXCEPT ![t] = {}]
    /\ pc' = [pc EXCEPT ![t] = "panic_flush_wait"]
    /\ UNCHANGED <<sinkVars, level, tagLevels, numInst, loggers, known, appenders,
                   queueVars, consumerVars, enableVerbose, returned,
                   pauseHeld, pausedSeqs, stopReceived, stopReturned,
                   lastCheck, calls>>

\* wait.Wait(); panic(...): the caller unwinds, local[t].p keeps how much
\* the consumer had handled by then
Panic_raise(t) ==
    /\ ~crashed
    /\ pc[t] = "panic_flush_wait"
    /\ wg[t] = 0
    /\ pc' = [pc EXCEPT ![t] = "panicked"]
    /\ local' = [local EXCEPT ![t].p = Len(history)]
    /\ returned' = returned \cup replayed[t]
    /\ UNCHANGED <<sinkVars, configVars, queueVars, consumerVars, enableVerbose, wg,
                   tasks, replayed, pauseHeld, pausedSeqs, stopReceived,
                   stopReturned, lastCheck, calls, inserted>>

(***************************************************************************)
(* WaitForIncoming: poll until processed = logged, loading processed       *)
(* first and logged second.                                                *)
(***************************************************************************)
WaitForIncoming(t) ==
    /\ Idle(t)
    /\ pc' = [pc EXCEPT ![t] = "wfi_load_processed"]
    /\ local' = [local EXCEPT ![t] = [NoLocal EXCEPT !.pre = returned]]
    /\ calls' = calls + 1
    /\ UNCHANGED <<sinkVars, configVars, queueVars, consumerVars, enableVerbose, wg,
                   tasks, ghostVars>>

WaitForIncoming_loadProcessed(t) ==
    /\ ~crashed
    /\ pc[t] = "wfi_load_processed"
    /\ local' = [local EXCEPT ![t].p = processed]
    /\ pc' = [pc EXCEPT ![t] = "wfi_load_logged"]
    /\ UNCHANGED <<sinkVars, configVars, queueVars, consumerVars, enableVerbose, wg,
                   tasks, ghostVars, calls>>

\* the test of the loop inverted
waitDone_inverted(p, l) == p # l

\* the test of the loop: sleep and poll again, or return
waitDone(p, l) == p = l

WaitForIncoming_loadLogged(t) ==
    /\ ~crashed
    /\ pc[t] = "wfi_load_logged"
    /\ pc' = [pc EXCEPT ![t] =
                 IF waitDone(local[t].p, logged) THEN "wfi_returned"
                 ELSE "wfi_load_processed"]
    /\ UNCHANGED <<sinkVars, configVars, queueVars, consumerVars, enableVerbose, local,
                   wg, tasks, ghostVars, calls>>

\* the caller goes on after WaitForIncoming has returned
WaitForIncoming_return(t) ==
    /\ ~crashed
    /\ pc[t] = "wfi_returned"
    /\ pc' = [pc EXCEPT ![t] = "idle"]
    /\ local' = [local EXCEPT ![t] = NoLocal]
    /\ UNCHANGED <<sinkVars, configVars, queueVars, consumerVars, enableVerbose, wg,
                   tasks, ghostVars, calls>>

(***************************************************************************)
(* The pipeline specification: producers on the default logger, buffer     *)
(* length and level changes with their flush goroutines, the consumer and  *)
(* WaitForIncoming, from the state after init().                           *)
(***************************************************************************)
MayCall == calls < MaxCalls

Next ==
    \/ \E t \in Threads, i \in Inst, n \in 0..MaxBufLen :
          MayCall /\ SetBufferLength(t, i, n)
    \/ \E t \in Threads, i \in Inst, l \in PipeSetLevels :
          MayCall /\ SetLogLevel(t, i, l)
    \/ \E t \in Threads : flushWait(t)
    \/ \E k \in tasks : flushBuffer_count(k)
    \/ \E k \in tasks : flushBuffer_send(k)
    \/ \E k \in tasks : flushBuffer_done(k)
    \/ \E t \in Threads, i \in Inst, l \in PipeLevels, g \in PipeTagLists :
          MayCall /\ logwithformat(t, i, l, g)
    \/ \E t \in Threads : logwithformat_send(t)
    \/ processIncoming_record
    \/ processLogRecord
    \/ \E t \in Threads : MayCall /\ WaitForIncoming(t)
    \/ \E t \in Threads : WaitForIncoming_loadProcessed(t)
    \/ \E t \in Threads : WaitForIncoming_loadLogged(t)
    \/ \E t \in Threads : WaitForIncoming_return(t)

Spec == Init /\ [][Next]_vars

(***************************************************************************)
(* The control specification: logger lookups, producers, the consumer and  *)
(* the callers of PauseLogging, RestartLogging and StopLogging, from the   *)
(* state after init().                                                     *)
(***************************************************************************)
MayControl == calls < MaxControlCalls

NextControl ==
    \/ \E t \in Threads, n \in PipeNames : MayControl /\ GetLogger(t, n)
    \/ \E t \in Threads : GetLogger_new(t)
    \/ \E t \in Threads : GetLogger_store(t)
    \/ \E t \in Threads, i \in Inst, l \in PipeLevels, g \in PipeTagLists :
          MayControl /\ logwithformat(t, i, l, g)
    \/ \E t \in Threads : logwithformat_send(t)
    \/ processIncoming_record
    \/ processLogRecord
    \/ \E t \in Threads : processIncoming_state(t)
    \/ processIncoming_done
    \/ \E t \in Threads : MayControl /\ PauseLogging(t)
    \/ \E t \in Threads : MayControl /\ RestartLogging(t)
    \/ \E t \in Threads : MayControl /\ StopLogging(t)
    \/ \E t \in Threads : StopLogging_wait(t)

SpecControl == Init /\ [][NextControl]_vars

(***************************************************************************)
(* The resolution specification: one caller configures the default logger  *)
(* and the named loggers "A" and "B", already looked up, with every level  *)
(* and tag, and calls CheckLevel.                                          *)
(***************************************************************************)
InitResolve ==
    /\ level = [i \in Inst |-> IF i = defaultLogger THEN INFO ELSE DEFAULT]
    /\ tagLevels = [i \in Inst |-> NilMap]
    /\ buffer = [i \in Inst |-> NilRing]
    /\ numInst = 3
    /\ loggers = [n \in Names |-> IF n = "A" THEN 2 ELSE 3]
    /\ known = {defaultLogger, 2, 3}
    /\ incomingChannel = << >>
    /\ logged = 0
    /\ processed = 0
    /\ enableVerbose = 0
    /\ waiter = 0
    /\ cpc = "select"
    /\ current = NoRecord
    /\ crashed = FALSE
    /\ pc = [t \in Threads |-> "idle"]
    /\ local = [t \in Threads |-> NoLocal]
    /\ wg = [t \in Threads |-> 0]
    /\ tasks = {}
    /\ history = << >>
    /\ enq = 0
    /\ returned = {}
    /\ replayed = [t \in Threads |-> {}]
    /\ pauseHeld = FALSE
    /\ pausedSeqs = {}
    /\ stopReceived = FALSE
    /\ stopReturned = FALSE
    /\ lastCheck = NoCheck
    /\ calls = 0
    /\ appenders = <<"stderr">>
    /\ inserted = [i \in Inst |-> << >>]
    /\ SinksInit

\* CheckLevel only reads the configuration: a scenario is a sequence of
\* configuration calls followed by one CheckLevel
MayConfigure == calls < MaxResolveOps /\ lastCheck = NoCheck

NextResolve ==
    \/ \E i \in ResolveCheckLoggers, l \in ResolveSetLevels :
          MayConfigure /\ SetLogLevel("t1", i, l)
    \/ \E i \in Inst, g \in Tags, l \in ResolveTagLevels :
          MayConfigure /\ SetTagLevel("t1", i, g, l)
    \/ flushWait("t1")
    \/ \E i \in ResolveCheckLoggers, l \in ResolveRecordLevels, g \in TagLists :
          MayConfigure /\ CheckLevel("t1", i, l, g)

SpecResolve == InitResolve /\ [][NextResolve]_vars

(***************************************************************************)
(* The replay specification: the default logger and the named logger "A",  *)
(* already looked up, each with a replay buffer of the same length;        *)
(* producers, level changes with their flush goroutines, the consumer.     *)
(***************************************************************************)
InitBuffer ==
    /\ level = [i \in Inst |-> IF i = defaultLogger THEN INFO ELSE DEFAULT]
    /\ tagLevels = [i \in Inst |-> NilMap]
    /\ \E n \in {1, MaxRing} :
          buffer = [i \in Inst |-> IF i \in {defaultLogger, 2} THEN RingNew(n)
                                   ELSE NilRing]
    /\ numInst = 2
    /\ loggers = [n \in Names |-> IF n = "A" THEN 2 ELSE NoLogger]
    /\ known = {defaultLogger, 2}
    /\ incomingChannel = << >>
    /\ logged = 0
    /\ processed = 0
    /\ enableVerbose = 0
    /\ waiter = 0
    /\ cpc = "select"
    /\ current = NoRecord
    /\ crashed = FALSE
    /\ pc = [t \in Threads |-> "idle"]
    /\ local = [t \in Threads |-> NoLocal]
    /\ wg = [t \in Threads |-> 0]
    /\ tasks = {}
    /\ history = << >>
    /\ enq = 0
    /\ returned = {}
    /\ replayed = [t \in Threads |-> {}]
    /\ pauseHeld = FALSE
    /\ pausedSeqs = {}
    /\ stopReceived = FALSE
    /\ stopReturned = FALSE
    /\ lastCheck = NoCheck
    /\ calls = 0
    /\ appenders = <<"stderr">>
    /\ inserted = [i \in Inst |-> << >>]
    /\ SinksInit

MayReplay == calls < MaxReplayCalls

NextBuffer ==
    \/ \E t \in ReplayCallers, i \in ReplayLoggers, l \in ReplaySetLevels :
          MayReplay /\ SetLogLevel(t, i, l)
    \/ \E t \in ReplayCallers, i \in ReplayLoggers, g \in ReplayTags, l \in ReplayTagLevels :
          MayReplay /\ SetTagLevel(t, i, g, l)
    \/ \E t \in Threads : flushWait(t)
    \/ \E k \in tasks : flushBuffer_count(k)
    \/ \E k \in tasks : flushBuffer_send(k)
    \/ \E k \in tasks : flushBuffer_done(k)
    \/ \E t \in ReplayCallers, i \in ReplayLoggers : \E l \in ReplayLevels(i) :
          MayReplay /\ logwithformat(t, i, l, NilTags)
    \/ \E t \in Threads : logwithformat_send(t)
    \/ processIncoming_record
    \/ processLogRecord

SpecBuffer == InitBuffer /\ [][NextBuffer]_vars

(***************************************************************************)
(* The panic specification: two callers log and panic on the default       *)
(* logger and on "A", from the initial states of the replay specification. *)
(***************************************************************************)
MayPanic == calls < MaxPanicCalls

NextPanic ==
    \/ \E t \in PanicProducers, i \in ReplayLoggers, l \in PanicLevels :
          MayPanic /\ logwithformat(t, i, l, NilTags)
    \/ \E t \in Threads : logwithformat_send(t)
    \/ \E t \in PanicCallers, i \in ReplayLoggers : MayPanic /\ Panic(t, i, NilTags)
    \/ \E t \in Threads : Panic_send(t)
    \/ \E t \in Threads : WaitForProcessed(t)
    \/ \E t \in Threads : Panic_flush(t)
    \/ \E t \in Threads : Panic_raise(t)
    \/ \E k \in tasks : flushBuffer_count(k)
    \/ \E k \in tasks : flushBuffer_send(k)
    \/ \E k \in tasks : flushBuffer_done(k)
    \/ processIncoming_record
    \/ processLogRecord

SpecPanic == InitBuffer /\ [][NextPanic]_vars

(***************************************************************************)
(* The dispatch specification: callers add appenders, some of which fail,  *)
(* and log on the default logger, from the state after init().             *)
(***************************************************************************)
MaySink == calls < MaxSinkCalls

ErrorCaps == {0, 1}
SinkLevels == {PANIC}

NextSinks ==
    \/ \E t \in Threads, a \in SinkKinds : MaySink /\ AddAppender(t, a)
    \/ \E t \in SinkCallers, n \in ErrorCaps :
          MaySink /\ CaptureLoggingErrors(t, n)
    \/ receiveError
    \/ \E t \in SinkCallers, a \in SinkKinds \cup {"stderr"}, l \in SinkLevels :
          MaySink /\ SetLevel(t, a, l)
    \/ \E t \in Threads, l \in PipeLevels :
          MaySink /\ logwithformat(t, defaultLogger, l, NilTags)
    \/ \E t \in Threads : logwithformat_send(t)
    \/ processIncoming_record
    \/ processLogRecord

SpecSinks == Init /\ [][NextSinks]_vars

(***************************************************************************)
(* The chain specification: callers add appenders, clear the chain and     *)
(* log on the default logger while the consumer dispatches.                *)
(***************************************************************************)
MaxChainCalls == 4
ChainKinds == {"memory", "rolling"}
ChainLevels == {ERROR}

MayChain == calls < MaxChainCalls

NextChain ==
    \/ \E t \in Threads, a \in ChainKinds : MayChain /\ AddAppender(t, a)
    \/ \E t \in Threads : MayChain /\ ClearAppenders(t)
    \/ \E t \in Threads : ClearAppenders_Lock(t)
    \/ \E t \in Threads : ClearAppenders_locked(t)
    \/ \E t \in Threads, l \in ChainLevels :
          MayChain /\ logwithformat(t, defaultLogger, l, NilTags)
    \/ \E t \in Threads : logwithformat_send(t)
    \/ \E t \in Threads : processIncoming_state(t)
    \/ processIncoming_record
    \/ processLogRecord

SpecChain == Init /\ [][NextChain]_vars

(***************************************************************************)
(* The verbose specification: a caller turns the verbose flag on and off,  *)
(* sets the level of a tag to VERBOSE and logs VERBOSE and DEBUG records   *)
(* on the default logger, with and without the tag, from the initial       *)
(* states of the replay specification.                                     *)
(***************************************************************************)
MaxVerboseCalls == 5
VerboseCallers == {"t1"}
VerboseLevels == {VERBOSE, DEBUG}
VerboseTagLists == {NilTags, <<"x">>}

MayVerbose == calls < MaxVerboseCalls

NextVerbose ==
    \/ \E t \in VerboseCallers : MayVerbose /\ EnableVerboseLogging(t)
    \/ \E t \in VerboseCallers : MayVerbose /\ DisableVerboseLogging(t)
    \/ \E t \in VerboseCallers :
          MayVerbose /\ SetTagLevel(t, defaultLogger, "x", VERBOSE)
    \/ \E t \in Threads : flushWait(t)
    \/ \E k \in tasks : flushBuffer_count(k)
    \/ \E k \in tasks : flushBuffer_send(k)
    \/ \E k \in tasks : flushBuffer_done(k)
    \/ \E t \in VerboseCallers, l \in VerboseLevels, tags \in VerboseTagLists :
          MayVerbose /\ logwithformat(t, defaultLogger, l, tags)
    \/ \E t \in Threads : logwithformat_send(t)
    \/ processIncoming_record
    \/ processLogRecord

SpecVerbose == InitBuffer /\ [][NextVerbose]_vars

(***************************************************************************)
(* The registry specification: callers look up the logger "A" and clear    *)
(* the registry.                                                           *)
(***************************************************************************)
MaxRegistryCalls == 4

MayLookup == calls < MaxRegistryCalls

NextRegistry ==
    \/ \E t \in Threads, n \in PipeNames : MayLookup /\ GetLogger(t, n)
    \/ \E t \in Threads : GetLogger_new(t)
    \/ \E t \in Threads : GetLogger_store(t)
    \/ \E t \in Threads : MayLookup /\ ClearLoggers(t)
    \/ \E t \in Threads : ClearLoggers_locked(t)
    \/ \E t \in Threads : processIncoming_state(t)

SpecRegistry == Init /\ [][NextRegistry]_vars

(***************************************************************************)
(* The rolling file specification: a RollingFileAppender made with any of  *)
(* the sizes and counts, in a directory where the current file of an       *)
(* earlier run may be left; records of two sizes are logged to it, it is   *)
(* rolled by hand and its level is set, and renames and opens may fail.    *)
(***************************************************************************)
OldFile == [exists |-> TRUE, data |-> <<[n |-> 0, bytes |-> 512]>>]
RollLevels == {INFO}
RollSetLevels == {WARN}

InitRoll ==
    /\ InitPipeline
    /\ ChainInit
    /\ \E size \in FileSizes, count \in FileCounts :
          rolling = NewRollingFileAppender(size, count)
    /\ \E old \in {NoFile, OldFile} :
          /\ disk = [g \in Generations |-> IF g = 0 THEN old ELSE NoFile]
          /\ rollLog = [NoRollLog EXCEPT !.initial = Size(old)]

MayWrite == calls < MaxWrites

NextRoll ==
    \/ \E l \in RollLevels, bytes \in RecordSizes, fault \in Faults \cup {WriteFault} :
          MayWrite /\ LogRolling(l, bytes, fault)
    \/ \E fault \in Faults : MayWrite /\ RollRolling(fault)
    \/ \E t \in SinkCallers, l \in RollSetLevels :
          MayWrite /\ SetLevel(t, "rolling", l)

SpecRoll == InitRoll /\ [][NextRoll]_vars

(***************************************************************************)
(* The fate specification: a caller logs on "A" and changes the levels of  *)
(* "A" and of the default logger while the records wait in the queue,      *)
(* from the initial states of the replay specification.                    *)
(***************************************************************************)
MaxFateCalls == 4
FateCallers == {"t1"}
\* the records are logged on "A", whose level is DEFAULT at first
FateLoggers == {2}
FateLevels == {DEBUG, ERROR}
FateSetLevels == {DEBUG, PANIC}
FateTagLists == {NilTags}

MayFate == calls < MaxFateCalls

NextFate ==
    \/ \E t \in FateCallers, i \in ReplayLoggers, l \in FateSetLevels :
          MayFate /\ SetLogLevel(t, i, l)
    \/ \E t \in Threads : flushWait(t)
    \/ \E k \in tasks : flushBuffer_count(k)
    \/ \E k \in tasks : flushBuffer_send(k)
    \/ \E k \in tasks : flushBuffer_done(k)
    \/ \E t \in FateCallers, i \in FateLoggers, l \in FateLevels, g \in FateTagLists :
          MayFate /\ logwithformat(t, i, l, g)
    \/ \E t \in Threads : logwithformat_send(t)
    \/ processIncoming_record
    \/ processLogRecord

SpecFate == InitBuffer /\ [][NextFate]_vars

(***************************************************************************)
(* The default level specification: a caller sets the level of the default *)
(* logger and of "A" to any LogLevel, from the initial state of the        *)
(* resolution specification.                                               *)
(***************************************************************************)
MaxDefaultCalls == 3
DefaultCallers == {"t1"}
DefaultLoggers == {2}

MayDefault == calls < MaxDefaultCalls

NextDefault ==
    \/ \E t \in DefaultCallers, l \in LogLevel :
          MayDefault /\ SetDefaultLogLevel(t, l)
    \/ \E t \in DefaultCallers, i \in DefaultLoggers, l \in LogLevel :
          MayDefault /\ SetLogLevel(t, i, l)
    \/ \E t \in Threads : flushWait(t)

SpecDefault == InitResolve /\ [][NextDefault]_vars

(***************************************************************************)
(* The pause specification: one caller calls PauseLogging before any other *)
(* call is made and never calls RestartLogging; another caller then clears *)
(* the appenders and the loggers, pauses and restarts, and logs.           *)
(***************************************************************************)
MaxPauseCalls == 4
Pauser == "t1"
PauseOthers == {"t2"}

MayPause == 0 < calls /\ calls < MaxPauseCalls

NextPause ==
    \/ calls = 0 /\ PauseLogging(Pauser)
    \/ \E t \in PauseOthers : MayPause /\ ClearAppenders(t)
    \/ \E t \in Threads : ClearAppenders_Lock(t)
    \/ \E t \in Threads : ClearAppenders_locked(t)
    \/ \E t \in PauseOthers : MayPause /\ ClearLoggers(t)
    \/ \E t \in Threads : ClearLoggers_locked(t)
    \/ \E t \in PauseOthers : MayPause /\ PauseThenRestart(t)
    \/ \E t \in Threads : PauseThenRestart_restart(t)
    \/ \E t \in PauseOthers, l \in ChainLevels :
          MayPause /\ logwithformat(t, defaultLogger, l, NilTags)
    \/ \E t \in Threads : logwithformat_send(t)
    \/ \E t \in Threads : processIncoming_state(t)
    \/ processIncoming_record
    \/ processLogRecord

SpecPause == Init /\ [][NextPause]_vars

(***************************************************************************)
(* The stop specification: callers stop the pipeline and call              *)
(* PauseLogging, RestartLogging, ClearAppenders and ClearLoggers, from the *)
(* state after init().                                                     *)
(***************************************************************************)
MaxStopCalls == 3

MayStop == calls < MaxStopCalls

NextStopped ==
    \/ \E t \in Threads : MayStop /\ StopLogging(t)
    \/ \E t \in Threads : StopLogging_wait(t)
    \/ \E t \in Threads : MayStop /\ PauseLogging(t)
    \/ \E t \in Threads : MayStop /\ RestartLogging(t)
    \/ \E t \in Threads : MayStop /\ ClearAppenders(t)
    \/ \E t \in Threads : ClearAppenders_Lock(t)
    \/ \E t \in Threads : ClearAppenders_locked(t)
    \/ \E t \in Threads : MayStop /\ ClearLoggers(t)
    \/ \E t \in Threads : ClearLoggers_locked(t)
    \/ \E t \in Threads : processIncoming_state(t)
    \/ processIncoming_done

SpecStopped == Init /\ [][NextStopped]_vars

(***************************************************************************)
(* The orphan specification: one caller holds the named logger "A", logs   *)
(* on it, clears the registry and changes the levels and tag levels of     *)
(* "A" and of the default logger, from the initial states of the replay    *)
(* specification.                                                          *)
(***************************************************************************)
MaxOrphanCalls == 4
OrphanCallers == {"t1"}
OrphanLoggers == {2}
OrphanLevels == {DEBUG}
OrphanSetLevels == {DEBUG}

MayOrphan == calls < MaxOrphanCalls

NextOrphan ==
    \/ \E t \in OrphanCallers : MayOrphan /\ ClearLoggers(t)
    \/ \E t \in OrphanCallers : ClearLoggers_locked(t)
    \/ \E t \in OrphanCallers : processIncoming_state(t)
    \/ \E t \in OrphanCallers, i \in ReplayLoggers, l \in OrphanSetLevels :
          MayOrphan /\ SetLogLevel(t, i, l)
    \/ \E t \in OrphanCallers, i \in ReplayLoggers, g \in ReplayTags,
          l \in ReplayTagLevels :
          MayOrphan /\ SetTagLevel(t, i, g, l)
    \/ \E t \in OrphanCallers : flushWait(t)
    \/ \E k \in tasks : flushBuffer_count(k)
    \/ \E k \in tasks : flushBuffer_send(k)
    \/ \E k \in tasks : flushBuffer_done(k)
    \/ \E t \in OrphanCallers, i \in OrphanLoggers, l \in OrphanLevels :
          MayOrphan /\ logwithformat(t, i, l, NilTags)
    \/ \E t \in OrphanCallers : logwithformat_send(t)
    \/ processIncoming_record
    \/ processLogRecord

SpecOrphan == InitBuffer /\ [][NextOrphan]_vars

(***************************************************************************)
(* The flush specification: one caller logs DEBUG records, which are       *)
(* buffered, changes levels and tag levels, and waits for the flush        *)
(* goroutines, from the initial states of the replay specification.  The   *)
(* consumer, the flush goroutines and a caller whose wait can return are   *)
(* goroutines that can run, which the Go scheduler runs in the end.        *)
(***************************************************************************)
MaxFlushCalls == 5
FlushCallers == {"t1"}
FlushLevels == {DEBUG}
FlushSetLevels == {DEBUG}

MayFlush == calls < MaxFlushCalls

NextFlush ==
    \/ \E t \in FlushCallers, l \in FlushSetLevels :
          MayFlush /\ SetLogLevel(t, defaultLogger, l)
    \/ \E t \in FlushCallers, g \in ReplayTags, l \in ReplayTagLevels :
          MayFlush /\ SetTagLevel(t, defaultLogger, g, l)
    \/ \E t \in FlushCallers : flushWait(t)
    \/ \E k \in tasks : flushBuffer_count(k)
    \/ \E k \in tasks : flushBuffer_send(k)
    \/ \E k \in tasks : flushBuffer_done(k)
    \/ \E t \in FlushCallers, l \in FlushLevels :
          MayFlush /\ logwithformat(t, defaultLogger, l, NilTags)
    \/ \E t \in FlushCallers : logwithformat_send(t)
    \/ processIncoming_record
    \/ processLogRecord

FairFlush ==
    /\ WF_vars(processIncoming_record)
    /\ WF_vars(processLogRecord)
    /\ WF_vars(\E k \in tasks : flushBuffer_count(k))
    /\ WF_vars(\E k \in tasks : flushBuffer_send(k))
    /\ WF_vars(\E k \in tasks : flushBuffer_done(k))
    /\ WF_vars(\E t \in FlushCallers : flushWait(t))

SpecFlush == InitBuffer /\ [][NextFlush]_vars /\ FairFlush

(***************************************************************************)
(* Properties.                                                             *)
(***************************************************************************)
Handled == 1..Len(history)

handledSeqs == {history[i].rec.seq : i \in Handled}

queuedSeqs ==
    {incomingChannel[i].seq : i \in 1..Len(incomingChannel)}
        \cup (IF current = NoRecord THEN {} ELSE {current.seq})

\* C1: in every reachable state the consumed counter is at most the
\* produced counter, whatever the interleaving of log calls, flush
\* goroutines and the consumer.
C1_ConsumedAtMostProduced == processed <= logged

\* a replayed record has been consumed and the pipeline is idle again
C1_Witness ==
    /\ processed = logged
    /\ \E i \in Handled : history[i].rec.replay

\* C2 as stated: when WaitForIncoming returns, every record submitted by a
\* call that returned before WaitForIncoming was called has been dispatched
\* to the sink chain or placed in a replay buffer.
C2_Original ==
    \A t \in Threads :
        pc[t] = "wfi_returned" =>
            \A s \in local[t].pre :
                \E i \in Handled :
                    /\ history[i].rec.seq = s
                    /\ history[i].fate \in {"dispatched", "buffered"}

\* C2 amended: when WaitForIncoming returns, every record submitted by a
\* log call or a level change that returned before WaitForIncoming was
\* called has been handled by the consumer (dispatched, buffered, or
\* discarded by the filter), and none is in the channel or in the
\* consumer's hands.
C2_DrainWait ==
    \A t \in Threads :
        pc[t] = "wfi_returned" =>
            /\ local[t].pre \subseteq handledSeqs
            /\ local[t].pre \cap queuedSeqs = {}

\* WaitForIncoming returns after a level change whose replayed record it
\* had to wait for
C2_Witness ==
    \E t \in Threads :
        /\ pc[t] = "wfi_returned"
        /\ \E i \in Handled :
              history[i].rec.replay /\ history[i].rec.seq \in local[t].pre

dispatchedAt(i) == history[i].fate = "dispatched"

\* the records enqueued during a pause are handled in enqueue order
PausedInOrder ==
    \A i, j \in Handled :
        (i < j /\ history[i].rec.seq \in pausedSeqs /\ history[j].rec.seq \in pausedSeqs)
            => history[i].rec.seq < history[j].rec.seq

\* C3: from the return of PauseLogging to the next RestartLogging the
\* consumer handles no record, and the records logged while paused are
\* dispatched afterwards in the order they were submitted.
C3_PauseThenInOrder ==
    [][(pauseHeld => history' = history) /\ PausedInOrder']_vars

\* two records logged during a pause have been dispatched after the restart
C3_Witness ==
    /\ ~pauseHeld
    /\ \E i, j \in Handled :
          /\ i < j
          /\ dispatchedAt(i) /\ dispatchedAt(j)
          /\ history[i].rec.seq \in pausedSeqs
          /\ history[j].rec.seq \in pausedSeqs

\* C4: once the consumer has received the stop signal it never runs or
\* pauses again and handles no further record.
C4_StopIsTerminal ==
    [][stopReceived =>
          /\ stopReceived'
          /\ cpc' \notin {"select", "process", "paused"}
          /\ processed' = processed
          /\ history' = history]_vars

\* the consumer has stopped, from the paused state, with a record left in
\* the channel
C4_Witness ==
    /\ stopReceived
    /\ pauseHeld
    /\ incomingChannel # << >>

stopCalled ==
    stopReceived \/ \E t \in Threads : pc[t] = "state_send" /\ local[t].st = stopped

\* C5: when StopLogging is called the completion wait-group holds a
\* positive count until the consumer exits, the consumer decrements it
\* exactly to zero and never below, and StopLogging returns only after the
\* consumer has exited.
C5_CompletionSignal ==
    /\ waiter >= 0
    /\ ~crashed
    /\ (stopCalled /\ cpc # "exited") => waiter > 0
    /\ cpc = "exited" => waiter = 0
    /\ stopReturned => cpc = "exited"

\* C6: the records of one producer thread that pass the filter when first
\* consumed are dispatched in the order of its log calls.
C6_ProducerOrder ==
    \A i, j \in Handled :
        (/\ i < j
         /\ dispatchedAt(i) /\ dispatchedAt(j)
         /\ ~history[i].rec.replay /\ ~history[j].rec.replay
         /\ history[i].rec.thread = history[j].rec.thread)
            => history[i].rec.id < history[j].rec.id

\* two records logged by one thread have both been dispatched, in call
\* order
C6_Witness ==
    \E i, j \in Handled :
        /\ i < j
        /\ dispatchedAt(i) /\ dispatchedAt(j)
        /\ history[i].rec.thread = history[j].rec.thread
        /\ history[i].rec.id < history[j].rec.id

(***************************************************************************)
(* Properties of the resolution.                                           *)
(***************************************************************************)
\* tag has a level at or below l in logger's map or, for a named logger,
\* in the default logger's map
tagPasses(logger, tag, l) ==
    \/ tag \in DOMAIN tagLevels[logger] /\ tagLevels[logger][tag] <= l
    \/ /\ logger # defaultLogger
       /\ tag \in DOMAIN tagLevels[defaultLogger]
       /\ tagLevels[defaultLogger][tag] <= l

someTagPasses(logger, l, tags) ==
    \E k \in 1..Len(tags) : tagPasses(logger, tags[k], l)

scalarPasses(logger, l) ==
    IF level[logger] # DEFAULT THEN level[logger] <= l
    ELSE level[defaultLogger] <= l

resolve(logger, l, tags) == checkLevelWithTags(level, tagLevels, logger, l, tags)

checked == lastCheck.logger # NoLogger

\* C7: with no matching tag level, CheckLevel passes iff the logger's level
\* (the default logger's level when the logger's is DEFAULT) is at most
\* the record's level; a logger set to L2 passes the levels >= L2 and
\* suppresses the levels < L2, for all of VERBOSE .. ERROR.
C7_ScalarFallback ==
    /\ (checked /\ ~someTagPasses(lastCheck.logger, lastCheck.l, lastCheck.tags))
          => (lastCheck.passed <=> scalarPasses(lastCheck.logger, lastCheck.l))
    /\ \A L2 \in VERBOSE..ERROR :
          (/\ checked
           /\ level[lastCheck.logger] = L2
           /\ lastCheck.tags = NilTags
           /\ lastCheck.l \in VERBOSE..ERROR)
              => (lastCheck.passed <=> lastCheck.l >= L2)

\* CheckLevel on a named logger set to WARN has just passed a WARN record
C7_Witness ==
    /\ lastCheck.logger = 2
    /\ level[2] = WARN
    /\ lastCheck.l = WARN
    /\ lastCheck.tags = NilTags
    /\ lastCheck.passed

\* C8: a record passes whenever one of its tags has a level at or below
\* the record's level in the owning logger's map or, for a named logger,
\* in the default logger's map, whatever the scalar levels and the other
\* tags are.
C8_AnyTagPasses ==
    (checked /\ someTagPasses(lastCheck.logger, lastCheck.l, lastCheck.tags))
        => lastCheck.passed

\* CheckLevel has passed a record whose first tag is mapped to a level
\* above the record's, whose second tag passes and whose scalar level fails
C8_Witness ==
    /\ lastCheck.logger = 2
    /\ lastCheck.passed
    /\ Len(lastCheck.tags) = 2
    /\ lastCheck.tags[1] \in DOMAIN tagLevels[2]
    /\ tagLevels[2][lastCheck.tags[1]] > lastCheck.l
    /\ tagPasses(2, lastCheck.tags[2], lastCheck.l)
    /\ ~scalarPasses(2, lastCheck.l)

\* C9: a record that passes without tags passes with every tag list,
\* whatever the tag level maps hold: a tag level above the scalar level
\* never suppresses it.
C9_TagsOnlyAdd ==
    (checked /\ resolve(lastCheck.logger, lastCheck.l, NilTags))
        => (lastCheck.passed /\ resolve(lastCheck.logger, lastCheck.l, lastCheck.tags))

\* CheckLevel has passed, on the scalar level, a record whose only tag is
\* mapped to a level above the record's
C9_Witness ==
    /\ lastCheck.logger = 2
    /\ lastCheck.passed
    /\ Len(lastCheck.tags) = 1
    /\ lastCheck.tags[1] \in DOMAIN tagLevels[2]
    /\ tagLevels[2][lastCheck.tags[1]] > lastCheck.l
    /\ ~someTagPasses(2, lastCheck.l, lastCheck.tags)

\* C10: SetTagLevel on a named logger leaves the tag map of every other
\* logger, the default logger's included, and the result of resolve for
\* every other logger, level and tag list unchanged.
C10_TagMapIsPrivate ==
    [][(pc["t1"] = "idle" /\ pc'["t1"] = "flush_wait" /\ level' = level) =>
          \A a \in known \ {defaultLogger} :
              (\E g \in Tags, l \in ResolveTagLevels : SetTagLevel("t1", a, g, l)) =>
                  \A o \in known \ {a} :
                      /\ tagLevels'[o] = tagLevels[o]
                      /\ \A rl \in ResolveRecordLevels, tl \in TagLists :
                            checkLevelWithTags(level', tagLevels', o, rl, tl)
                                = checkLevelWithTags(level, tagLevels, o, rl, tl)]_vars

\* a tag level has been set on each of the default logger and the two
\* named loggers, with different levels for the same tag
C10_Witness ==
    /\ \A i \in Inst : "x" \in DOMAIN tagLevels[i]
    /\ tagLevels[2]["x"] # tagLevels[3]["x"]
    /\ tagLevels[2]["x"] # tagLevels[defaultLogger]["x"]

(***************************************************************************)
(* Properties of the replay buffers.                                       *)
(***************************************************************************)
ringRecs(buf) ==
    IF buf = NilRing THEN {}
    ELSE {buf.vals[j] : j \in {m \in 1..RingLen(buf) : buf.vals[m] # NoRecord}}

seqsOf(recs) == {recs[j].seq : j \in 1..Len(recs)}

idsOf(recs) == {recs[j].id : j \in 1..Len(recs)}

\* the last n elements of s
lastN(s, n) == {s[j] : j \in {m \in 1..Len(s) : m > Len(s) - n}}

dispatchedIds == {history[i].rec.id : i \in {j \in Handled : dispatchedAt(j)}}

suppressedIds(logger) ==
    {history[i].rec.id :
        i \in {j \in Handled : history[j].fate = "buffered"
                                /\ history[j].rec.logger = logger}}

\* the records on their way: in a ring, in a flush goroutine, in the
\* channel or in the consumer's hands
liveIds ==
    UNION {{r.id : r \in ringRecs(buffer[i])} : i \in Inst}
        \cup UNION {idsOf(k.recs) : k \in tasks}
        \cup idsOf(incomingChannel)
        \cup (IF current = NoRecord THEN {} ELSE {current.id})

Roomy(logger) ==
    buffer[logger] # NilRing
        /\ Cardinality(suppressedIds(logger)) <= RingLen(buffer[logger])

\* what a drain-wait after the last call establishes
Quiescent ==
    /\ incomingChannel = << >>
    /\ current = NoRecord
    /\ tasks = {}
    /\ \A t \in Threads : pc[t] = "idle"

\* C11: no record is dispatched twice; while a logger's ring has room for
\* its suppressed records, each of them is either dispatched or still on
\* its way (never both, never neither); and once everything is drained
\* the records left in a ring are those the filter still rejects.
C11_ReplayOnceNoLoss ==
    /\ \A i, j \in Handled :
          (i < j /\ dispatchedAt(i) /\ dispatchedAt(j))
              => history[i].rec.id # history[j].rec.id
    /\ \A logger \in Inst :
          Roomy(logger) =>
              /\ \A id \in suppressedIds(logger) :
                    (id \in dispatchedIds) # (id \in liveIds)
              /\ Quiescent =>
                    \A r \in ringRecs(buffer[logger]) : fate(r) # "dispatched"

\* everything is drained; one record was suppressed, replayed and kept by
\* a level change that did not admit it, then replayed and dispatched
C11_Witness ==
    /\ Quiescent
    /\ \E i, j \in Handled :
          /\ i < j
          /\ history[i].rec.id = history[j].rec.id
          /\ history[i].rec.replay /\ history[i].fate = "buffered"
          /\ history[j].rec.replay /\ dispatchedAt(j)
          /\ Roomy(history[i].rec.logger)

\* every ring holds exactly the last N records put in it
RingHoldsLastN ==
    \A i \in Inst :
        buffer[i] # NilRing =>
            /\ Cardinality(ringRecs(buffer[i])) <= RingLen(buffer[i])
            /\ detached(buffer[i]) = lastN(inserted[i], RingLen(buffer[i]))

\* thread t enters the flush of SetLogLevel / SetTagLevel in this step
flushStep(t) == pc[t] = "idle" /\ pc'[t] = "flush_wait"

\* C12: a ring of capacity N holds at most N records, the N most recently
\* suppressed ones, and a flush replays exactly what the ring held.
C12_RingKeepsNewest ==
    [][/\ RingHoldsLastN'
       /\ \A t \in Threads :
             flushStep(t) =>
                 \A k \in tasks' \ tasks :
                     /\ seqsOf(k.recs) = lastN(inserted[k.inst], RingLen(buffer[k.inst]))
                     /\ Len(k.recs) <= RingLen(buffer[k.inst])]_vars

\* a flush goroutine replays a full ring of a logger for which more
\* records than the ring's capacity were suppressed
C12_Witness ==
    \E k \in tasks :
        /\ ~k.counted
        /\ Len(k.recs) = RingLen(buffer[k.inst])
        /\ Cardinality({i \in Handled : /\ history[i].fate = "buffered"
                                        /\ history[i].rec.logger = k.inst
                                        /\ ~history[i].rec.replay})
              > RingLen(buffer[k.inst])

\* C13: a flush goroutine re-enqueues the records in the order they were
\* put in the ring, oldest first.
C13_ReplayOldestFirst ==
    \A k \in tasks :
        \A a, b \in 1..Len(k.recs) :
            a < b => k.recs[a].seq < k.recs[b].seq

\* C14: when SetLogLevel / SetTagLevel returns, no flush goroutine of the
\* call is left and every record the call detached has been counted and
\* sent on the channel.
C14_FlushBarrier ==
    [][\A t \in Threads :
          (pc[t] = "flush_wait" /\ pc'[t] = "idle") =>
              /\ \A k \in tasks : k.owner # t
              /\ Cardinality(replayed[t]) = Cardinality(local[t].pre)
              /\ \A s \in replayed[t] : s <= enq
              /\ logged >= Cardinality(replayed[t])]_vars

\* a level change that replayed a record has returned
C14_Witness ==
    /\ pc["t1"] = "idle"
    /\ replayed["t1"] # {}
    /\ replayed["t1"] \subseteq returned

registry == {loggers[n] : n \in {m \in Names : loggers[m] # NoLogger}}

\* the step of thread t detaches logger o's ring and hands its records to
\* a goroutine of its own
flushedBy(o, t) ==
    buffer[o] # NilRing =>
        /\ buffer'[o] = RingNew(RingLen(buffer[o]))
        /\ \E k \in tasks' \ tasks :
              k.owner = t /\ k.inst = o /\ seqsOf(k.recs) = detached(buffer[o])

\* C15: a level or tag level change of the default logger flushes every
\* registered logger and the default logger; one of a named logger
\* flushes that logger only and leaves the other rings as they were.
C15_FlushScope ==
    [][\A t \in Threads :
          flushStep(t) =>
              IF local'[t].inst = defaultLogger
              THEN \A o \in registry \cup {defaultLogger} : flushedBy(o, t)
              ELSE /\ flushedBy(local'[t].inst, t)
                   /\ \A o \in Inst \ {local'[t].inst} :
                         /\ buffer'[o] = buffer[o]
                         /\ \A k \in tasks' \ tasks : k.inst # o]_vars

\* a change of the default logger's level is replaying the records of the
\* default logger and of the named logger
C15_Witness ==
    /\ pc["t1"] = "flush_wait"
    /\ local["t1"].inst = defaultLogger
    /\ \E k1, k2 \in tasks :
          /\ k1.inst = defaultLogger /\ k2.inst = 2
          /\ k1.recs # << >> /\ k2.recs # << >>

(***************************************************************************)
(* Properties of the Panic calls.  For a caller that has panicked,         *)
(* local[t].p is the number of records the consumer had handled when the   *)
(* panic was raised.                                                       *)
(***************************************************************************)
Panicked(t) == pc[t] = "panicked"

\* C16: a Panic call raises its panic only after its own PANIC record has
\* been dispatched.
C16_PanicAfterOwnRecord ==
    \A t \in Threads :
        Panicked(t) =>
            \E i \in 1..local[t].p :
                history[i].rec.seq = local[t].rec.seq /\ dispatchedAt(i)

\* C17: WaitForProcessed(n) returns as soon as processed >= n: a caller in
\* the loop with processed >= n is let through by the loop's test.
C17_WaitEndsOnceReached ==
    \A t \in Threads :
        (pc[t] = "wfp_poll" /\ processed >= local[t].p)
            => processedIs(local[t].p, processed)

\* C18: by the time a Panic call raises its panic it has flushed every
\* logger of the registry and the default logger.
C18_PanicFlushesAll ==
    \A t \in Threads :
        Panicked(t) => (registry \cup {defaultLogger}) \subseteq local[t].flushed

\* C19: when a Panic call raises its panic, every record a ring held when
\* the call was made has been dispatched.
C19_BacklogDispatched ==
    \A t \in Threads :
        Panicked(t) =>
            \A id \in local[t].pre :
                \E i \in 1..local[t].p :
                    history[i].rec.id = id /\ dispatchedAt(i)

(***************************************************************************)
(* Properties of the dispatch.                                             *)
(***************************************************************************)
\* the appenders whose Log was called for the i-th handled record
calledAt(i) ==
    [j \in 1..Len(history[i].logs) |-> history[i].logs[j].appender]

\* C20: for a record that passes the filter the consumer calls Log on
\* every appender, in registration order, whichever of them return
\* errors, and the consumed counter advances.
C20_EverySinkCalled ==
    [][(cpc = "process" /\ cpc' = "select") =>
          /\ processed' = processed + 1
          /\ fate(current) = "dispatched" =>
                /\ Len(history') = Len(history) + 1
                /\ history'[Len(history')].rec = current
                /\ [j \in 1..Len(history'[Len(history')].logs) |->
                       history'[Len(history')].logs[j].appender] = appenders]_vars

\* a record has been dispatched to three appenders, the second of which
\* returned an error, and counted
C20_Witness ==
    \E i \in Handled :
        /\ dispatchedAt(i)
        /\ Len(history[i].logs) = 3
        /\ history[i].logs[2].err
        /\ calledAt(i) = appenders
        /\ processed >= i

(***************************************************************************)
(* Properties of the error channel.                                        *)
(***************************************************************************)
\* the errors a reader of the channel has got or will get, in order
delivered(ch) == ch.got \o ch.q

\* the errors returned by the appenders for one handled record
RECURSIVE errorsOf(_, _)
errorsOf(rec, logs) ==
    IF logs = << >> THEN << >>
    ELSE (IF Head(logs).err
          THEN <<[id |-> rec.id, appender |-> Head(logs).appender]>>
          ELSE << >>) \o errorsOf(rec, Tail(logs))

\* the sends the channel can take without anyone blocking
room(ch) ==
    IF ~ch.set THEN 0
    ELSE (IF ch.waiting THEN 1 ELSE 0) + ch.cap - Len(ch.q)

firstN(seq, n) == [j \in 1..(IF n < Len(seq) THEN n ELSE Len(seq)) |-> seq[j]]

\* C21: whatever the state of the error channel (none, unbuffered with no
\* reader, full), the consumer's step for a record happens: the record is
\* counted and every appender is called; of the errors the appenders
\* returned, those the channel has room for are sent, in dispatch order
\* behind the errors already there, and the others are dropped; nothing
\* else changes what the reader gets.
C21_ErrorsNeverBlock ==
    [][/\ (cpc = "process" /\ cpc' = "select") =>
            LET last == history'[Len(history')]
                errs == errorsOf(last.rec, last.logs)
            IN  /\ processed' = processed + 1
                /\ last.rec = current
                /\ fate(current) = "dispatched" =>
                      [j \in 1..Len(last.logs) |-> last.logs[j].appender] = appenders
                /\ delivered(logErrors') =
                      delivered(logErrors) \o firstN(errs, room(logErrors))
                /\ Len(logErrors'.q) <= logErrors'.cap
       /\ (cpc = cpc' /\ calls' = calls) =>
            delivered(logErrors') = delivered(logErrors)]_vars

\* two records were dispatched to a chain holding the failing appender
\* while the channel of capacity one was not read: the first error is in
\* the channel, the second was dropped, both records are counted and every
\* appender was called for both
C21_Witness ==
    /\ logErrors.set
    /\ logErrors.cap = 1
    /\ logErrors.got = << >>
    /\ \E i, j \in Handled :
          /\ i < j
          /\ j <= processed
          /\ dispatchedAt(i) /\ dispatchedAt(j)
          /\ calledAt(i) = appenders /\ calledAt(j) = appenders
          /\ logErrors.q = errorsOf(history[i].rec, history[i].logs)
          /\ errorsOf(history[j].rec, history[j].logs) # << >>

(***************************************************************************)
(* Properties of the changes of the chain.                                 *)
(***************************************************************************)
\* thread t empties the chain in this step, inside a ClearAppenders call
\* that has paused the consumer, holding logMutex, closing the closable
\* appenders of the chain, and goes on to RestartLogging
clearsUnderPause(t) ==
    /\ pc[t] = "clear_locked"
    /\ local[t].op = "ClearAppenders"
    /\ local[t].sig = <<paused>>
    /\ logMutex = t
    /\ appenders' = << >>
    /\ (\E a \in chain(appenders) : Closable(a)) => ~rolling'.currentWriter
    /\ logMutex' = ""
    /\ pc'[t] = "state_send"
    /\ local'[t].st = running

\* thread t has sent its RestartLogging and returns from ClearAppenders
clearReturns(t) ==
    /\ pc[t] = "state_send"
    /\ local[t].op = "ClearAppenders"
    /\ pc'[t] = "idle"

\* the chain gets one more appender in a step that takes logMutex and
\* leaves the consumer and every caller where they are
addsUnderLock ==
    /\ \E a \in Appenders : appenders' = Append(appenders, a)
    /\ logMutex = ""
    /\ pc' = pc
    /\ cpc' = cpc

\* C22 as stated: every change of the chain, an addition as well as a
\* clear, is made between a pause and a resume of the consumer by the
\* calling thread.
C22_Original ==
    [][appenders' # appenders => \E t \in Threads : clearsUnderPause(t)]_vars

\* C22: a clear of the chain is made by a call that has paused the
\* consumer, with logMutex held and the closable appenders closed, and the
\* call resumes the consumer before it returns; an addition is made with
\* logMutex held, with no pause and no resume.
C22_ClearPausesAddLocks ==
    [][/\ appenders' # appenders =>
            \/ \E t \in Threads : clearsUnderPause(t)
            \/ addsUnderLock
       /\ \A t \in Threads :
            clearReturns(t) => local[t].st = running /\ cpc' = "select"]_vars

\* a ClearAppenders call has closed the rolling appender, which had the
\* file open, emptied the chain and is about to resume the consumer
C22_Witness ==
    \E t \in Threads :
        /\ pc[t] = "state_send"
        /\ local[t].op = "ClearAppenders"
        /\ local[t].st = running
        /\ local[t].sig = <<paused>>
        /\ appenders = << >>
        /\ rollLog.writes > 0
        /\ ~rolling.currentWriter

\* C23: the consumer calls no appender while a ClearAppenders call is
\* closing the appenders, and it never calls an appender that a
\* ClearAppenders call has removed and nobody has added since: a record
\* handled after the clear goes to the appenders added after it only.
C23_NoLogDuringOrAfterClose ==
    [][(cpc = "process" /\ cpc' = "select") =>
          LET last == history'[Len(history')]
          IN  /\ \A t \in Threads : pc[t] # "clear_locked"
              /\ \A j \in 1..Len(last.logs) :
                    ~sink[last.logs[j].appender].removed]_vars

\* a record logged after a ClearAppenders call had returned was dispatched
\* to the appender added after the clear and not to the removed one, which
\* got the record logged before the clear
C23_Witness ==
    \E i, j \in Handled :
        /\ i < j
        /\ dispatchedAt(i) /\ dispatchedAt(j)
        /\ calledAt(i) = <<"stderr">>
        /\ calledAt(j) = <<"memory">>
        /\ sink["stderr"].removed
        /\ \A t \in Threads : pc[t] = "idle"

(***************************************************************************)
(* Properties of the appenders' own levels.                                *)
(***************************************************************************)
\* C24: every appender called for a dispatched record, and returning no
\* error, records it exactly when the appender's own level is at or below
\* the record's level, whatever the other appenders and the logger's level
\* are.
C24_EverySinkFilters ==
    [][(cpc = "process" /\ cpc' = "select") =>
          LET last == history'[Len(history')]
          IN  \A j \in 1..Len(last.logs) :
                 ~last.logs[j].err =>
                    (last.logs[j].wrote <=>
                        sink[last.logs[j].appender].level <= current.level)]_vars

(***************************************************************************)
(* Properties of the verbose flag.                                         *)
(***************************************************************************)
\* C25: the verbose flag starts off; a VERBOSE log call made while it is
\* off changes neither the produced counter nor the queue and leaves the
\* caller with nothing to send, whatever the levels are; made while it is
\* on, it counts and sends a VERBOSE record; the consumer dispatches a
\* VERBOSE record exactly when it passes the level resolution and never
\* puts it in a ring.
C25_VerboseFlag ==
    [][/\ calls = 0 => enableVerbose = 0
       /\ \A t \in VerboseCallers, tags \in VerboseTagLists :
            logwithformat(t, defaultLogger, VERBOSE, tags) =>
               IF enableVerbose # 1
               THEN /\ logged' = logged
                    /\ enq' = enq
                    /\ incomingChannel' = incomingChannel
                    /\ pc' = pc
               ELSE /\ logged' = logged + 1
                    /\ pc'[t] = "log_send"
                    /\ local'[t].rec.level = VERBOSE
       /\ (cpc = "process" /\ cpc' = "select" /\ current.level = VERBOSE) =>
            /\ buffer' = buffer
            /\ history'[Len(history')].fate \in {"dispatched", "dropped"}
            /\ history'[Len(history')].fate = "dispatched" <=>
                  resolve(current.logger, VERBOSE, current.tags)]_vars

\* with the flag turned on and off again, one VERBOSE record was dropped
\* by a logger that has a ring, which stayed empty, and another one was
\* dispatched
C25_Witness ==
    /\ enableVerbose = 0
    /\ \E i, j \in Handled :
          /\ history[i].rec.level = VERBOSE
          /\ history[i].fate = "dropped"
          /\ buffer[history[i].rec.logger] # NilRing
          /\ history[j].rec.level = VERBOSE
          /\ dispatchedAt(j)
    /\ ringRecs(buffer[defaultLogger]) = {}

(***************************************************************************)
(* Properties of the registry.                                             *)
(***************************************************************************)
\* C26: the GetLogger calls for one name that return between the same two
\* ClearLoggers calls return the same instance, and those that return on
\* different sides of a ClearLoggers call return different instances.
C26_OneInstancePerName ==
    \A a, b \in lookups.got :
        a.name = b.name => (a.gen = b.gen <=> a.inst = b.inst)

(***************************************************************************)
(* Properties of the RollingFileAppender.                                  *)
(***************************************************************************)
\* the serial numbers of the writes a file, or a directory, holds
serials(file) == {file.data[j].n : j \in 1..Len(file.data)}

onDisk(d) == UNION {serials(d[g]) : g \in Generations}

\* the bytes in all the files
RECURSIVE totalFrom(_, _)
totalFrom(d, g) == IF g < 0 THEN 0 ELSE Size(d[g]) + totalFrom(d, g - 1)

total(d) == totalFrom(d, MaxFiles)

\* the writes made so far, with the content found at the start
everWritten == (1..rollLog.writes) \cup (IF rollLog.initial > 0 THEN {0} ELSE {})

\* the step is a call of Log or Roll on the RollingFileAppender
rollingCall == rollLog'.ops = rollLog.ops + 1

\* a file operation of a Roll from this state fails: the rename of file
\* number at, or the removal of the file after it
renameFails(fault) ==
    /\ fault.op \in {"rename", "stat"}
    /\ fault.at <= rolling.maxFiles - 2
    /\ disk[fault.at].exists
    \* the removal goes through only on the last file of the window, the
    \* only one still there when the loop comes to the file before it
    /\ fault.op = "stat" =>
          ~(fault.at = rolling.maxFiles - 2 /\ disk[fault.at + 1].exists)

\* the call of Log in this step has rolled the files to the end
rolledThrough ==
    /\ rollLog'.last.needed
    /\ ~renameFails(rollLog'.last.fault)

\* C27: with maxFiles = M > 1 no file numbered M or more ever exists; a
\* roll that goes through leaves the content of every existing file i
\* below M-1 in file i+1 and no other file changed; no write is in two
\* files; the only writes that leave the directory are those of file M-1;
\* while no write has left, the sizes of the files add up to the bytes
\* written (with those found at the start).
C27_RollShiftsWindow ==
    [][(rolling.maxFiles > 1 /\ rollingCall) =>
          LET M == rolling.maxFiles
          IN  /\ \A g \in Generations : disk'[g].exists => g <= M - 1
              /\ rolledThrough =>
                    \A i \in 1..(M - 1) :
                       disk'[i] = IF disk[i - 1].exists THEN disk[i - 1]
                                  ELSE IF i <= M - 2 /\ disk[i].exists THEN NoFile
                                  ELSE disk[i]
              /\ ~rollLog'.last.needed =>
                    \A i \in 1..(M - 1) : disk'[i] = disk[i]
              /\ \A g, h \in Generations :
                    g # h => serials(disk'[g]) \cap serials(disk'[h]) = {}
              /\ \A g \in Generations :
                    Cardinality(serials(disk'[g])) = Len(disk'[g].data)
              /\ onDisk(disk) \ onDisk(disk') \subseteq serials(disk[M - 1])
              /\ onDisk(disk') = (1..rollLog'.writes) \cup
                                   (IF rollLog.initial > 0 THEN {0} ELSE {})
                    => total(disk') = rollLog'.initial + rollLog'.written]_vars

\* the window of an appender with two files is full, the oldest content
\* has been replaced by a roll, and what is left is in the order of the
\* writes
C27_Witness ==
    /\ rolling.maxFiles = 2
    /\ disk[0].exists /\ disk[1].exists
    /\ onDisk(disk) # everWritten
    /\ rollLog.writes >= 3
    /\ disk[1].data # << >>
    /\ \A n \in serials(disk[1]) : \A m \in serials(disk[0]) : n < m
    /\ disk[0].data # << >>

\* the step is a call of Log that passes the appender's level
reachesNeedsRoll ==
    /\ rollingCall
    /\ rollLog'.last.op = "Log"
    /\ rollLog'.reached = rollLog.reached + 1

\* with maxFiles = 1 the files are rolled exactly when the current file is
\* missing, whatever its size, and a write goes to the end of the one file
oneFileNeverRollsBySize ==
    /\ rollLog'.last.needed <=> ~disk[0].exists
    /\ rollLog'.last.wrote =>
          /\ Len(disk'[0].data) = Len(disk[0].data) + 1
          /\ \A j \in 1..Len(disk[0].data) : disk'[0].data[j] = disk[0].data[j]

sizeBeforeLast(file) ==
    IF file.data = << >> THEN 0
    ELSE Size(file) - file.data[Len(file.data)].bytes

\* every record written so far, and what was found at the start, has
\* this many bytes, and maxFileSize is a multiple of it
allOfSize(bytes) ==
    /\ rollLog.written = bytes * rollLog.writes
    /\ rollLog.initial \in {0, bytes}
    /\ rolling.maxFileSize % bytes = 0

ioFails(fault) ==
    \/ rollLog'.last.needed /\ renameFails(fault)
    \/ /\ fault.op = "open"
       /\ rollLog'.last.needed \/ ~rolling.currentWriter

\* the places of the rolling appender in a chain
rollingAt(apps) == {j \in 1..Len(apps) : apps[j] = "rolling"}

\* C30: when the chain holds the rolling appender once, its Log returns
\* an error for a dispatched record exactly when a rename, an open or a
\* create of that call fails; the record is then not written to its
\* files, every appender of the chain is still called and the others
\* record the record, and a later Log call that meets no failure writes
\* its record.
C30_RotationErrorIsLocal ==
    [][(cpc = "process" /\ cpc' = "select" /\ fate(current) = "dispatched"
          /\ Cardinality(rollingAt(appenders)) = 1) =>
          LET last == history'[Len(history')]
              j == CHOOSE k \in rollingAt(appenders) : TRUE
              again == RollingFileAppender_Log(rolling', disk',
                           sink'["rolling"].level, current.level,
                           rollLog'.writes + 1, PipeBytes, NoFault)
          IN  /\ [k \in 1..Len(last.logs) |-> last.logs[k].appender] = appenders
              /\ last.logs[j].err <=> ioFails(rollLog'.last.fault)
              /\ last.logs[j].err =>
                    /\ ~last.logs[j].wrote
                    /\ onDisk(disk') = onDisk(disk)
                    /\ rollLog'.writes = rollLog.writes
              /\ ~last.logs[j].err =>
                    /\ last.logs[j].wrote
                    /\ onDisk(disk') \ onDisk(disk) = {rollLog'.writes}
              /\ \A k \in 1..Len(last.logs) :
                    last.logs[k].appender # "rolling" =>
                       last.logs[k].wrote /\ ~last.logs[k].err
              /\ ~again.err /\ again.wrote]_vars

\* the rolling appender returned an error for one record, which the
\* memory appender behind it recorded, and wrote the next record
C30_Witness ==
    \E i, j \in Handled :
        /\ i < j
        /\ calledAt(i) = <<"stderr", "rolling", "memory">>
        /\ history[i].logs[2].err /\ ~history[i].logs[2].wrote
        /\ history[i].logs[3].wrote
        /\ calledAt(j) = calledAt(i)
        /\ history[j].logs[2].wrote
        /\ history[j].logs[3].wrote

(***************************************************************************)
(* The moment the fate of a record is decided.                             *)
(***************************************************************************)
\* the resolution for a record under the configuration of this state, from
\* the owning logger's and the default logger's levels and tag levels
passesNow(rec) ==
    \/ someTagPasses(rec.logger, rec.level, rec.tags)
    \/ scalarPasses(rec.logger, rec.level)

\* the consumer handles a record in this step
handles == Len(history') = Len(history) + 1

\* C31: the fate of a record is decided by the owning logger's and the
\* default logger's configuration at the moment the consumer handles it,
\* whatever the configuration was when the record was logged: it is
\* dispatched iff it passes now, else buffered iff the owning logger has
\* a buffer now and the record is above VERBOSE, else dropped.
C31_FateAtConsume ==
    [][handles =>
          LET e == history'[Len(history')]
          IN  /\ e.rec = current
              /\ (e.fate = "dispatched") = passesNow(current)
              /\ (e.fate = "buffered") =
                     (/\ ~passesNow(current)
                      /\ buffer[current.logger] # NilRing
                      /\ current.level > VERBOSE)
              /\ e.fate \in {"dispatched", "buffered", "dropped"}
              /\ (e.fate = "buffered") =
                     (buffer'[current.logger] # buffer[current.logger])
              /\ (e.fate = "dispatched") = (e.logs # << >>)]_vars

\* a record logged while it passed was buffered after the level was
\* tightened, and a record logged while it did not pass was dispatched
\* after the level was loosened, each the first time it was handled
C31_Witness ==
    /\ \E i \in Handled :
          /\ history[i].rec.asLogged
          /\ ~history[i].rec.replay
          /\ history[i].fate = "buffered"
    /\ \E i \in Handled :
          /\ ~history[i].rec.asLogged
          /\ ~history[i].rec.replay
          /\ history[i].fate = "dispatched"

(***************************************************************************)
(* The queue.                                                              *)
(***************************************************************************)
\* the enqueues made so far are in the queue, with the consumer, or
\* handled, each one once
noneLost ==
    /\ queuedSeqs \cup handledSeqs = 1..enq
    /\ Len(incomingChannel) + (IF current = NoRecord THEN 0 ELSE 1)
          + Len(history) = enq

\* the callers blocked in the send of a log call
blockedSenders == {t \in Threads : pc[t] = "log_send"}

\* C32: the queue never holds more than its capacity and loses no record:
\* while the pipeline is paused the consumer takes nothing, the producers
\* enqueue until the queue is full, and a log call that finds it full
\* stays blocked until a slot is free.
C32_BoundedNoLoss ==
    [][/\ Len(incomingChannel) <= QueueCap /\ Len(incomingChannel') <= QueueCap
       /\ noneLost /\ noneLost'
       /\ (cpc = "paused" /\ cpc' = "paused") =>
              /\ Len(incomingChannel') >= Len(incomingChannel)
              /\ history' = history
       /\ Len(incomingChannel) = QueueCap =>
              /\ enq' = enq
              /\ \A t \in blockedSenders : pc'[t] = "log_send"
       /\ \A t \in blockedSenders :
              pc'[t] # "log_send" =>
                 /\ Len(incomingChannel) < QueueCap
                 /\ incomingChannel' =
                        Append(incomingChannel, [local[t].rec EXCEPT !.seq = enq + 1])]_vars

\* the pipeline is paused, the queue was filled to its capacity during the
\* pause and a further log call is blocked in its send
C32_Witness ==
    /\ cpc = "paused"
    /\ Len(incomingChannel) = QueueCap
    /\ \A i \in 1..Len(incomingChannel) : incomingChannel[i].seq \in pausedSeqs
    /\ blockedSenders # {}

(***************************************************************************)
(* The file operations of a roll.                                          *)
(***************************************************************************)
\* the calls of os.Remove and os.Rename made by the roll of this step
rollSteps == rollLog'.last.steps

\* C33: during a roll, for each file i from maxFiles-2 down to 0 that
\* exists, a file i+1 that exists is deleted before file i is renamed to
\* i+1: no rename finds the file after it still there.
C33_DeleteBeforeRename ==
    [][rollingCall =>
          \A k \in 1..Len(rollSteps) :
             rollSteps[k].op = "rename" => ~rollSteps[k].over]_vars

(***************************************************************************)
(* SetBufferLength.                                                        *)
(***************************************************************************)
\* C34: after SetBufferLength(n) on a logger, for every n, the current
\* capacity included, the logger's buffer is empty and has capacity n, and
\* there is no buffer when n is 0.
C34_SetBufferLengthClears ==
    [][\A t \in Threads, i \in Inst, n \in 0..MaxBufLen :
          SetBufferLength(t, i, n) => buffer'[i] = RingNew(n)]_vars

(***************************************************************************)
(* The level of the default logger.                                        *)
(***************************************************************************)
\* C35: in every reachable state, after any sequence of SetLogLevel and
\* SetDefaultLogLevel calls with any LogLevel argument, the level of the
\* default logger is not DEFAULT.
C35_DefaultLevelIsSet == level[defaultLogger] # DEFAULT

(***************************************************************************)
(* A pause and the calls of other threads.                                 *)
(***************************************************************************)
\* the PauseLogging call of the pauser has returned; the pauser makes no
\* other call
pauserHolds == calls > 0 /\ pc[Pauser] = "idle"

\* C36: a pipeline paused by PauseLogging stays paused until the matching
\* RestartLogging: a ClearAppenders or ClearLoggers call, or a
\* PauseLogging / RestartLogging pair of another thread, does not resume
\* it, so the consumer takes no record before the pauser's RestartLogging.
C36_PauseHeldUntilRestart == pauserHolds => cpc = "paused"

(***************************************************************************)
(* Calls made after the stop.                                              *)
(***************************************************************************)
\* the step is the call of one of the functions that begin with a send on
\* stateChannel
controlCall(t) ==
    \/ PauseLogging(t)
    \/ RestartLogging(t)
    \/ StopLogging(t)
    \/ ClearAppenders(t)
    \/ ClearLoggers(t)

\* C37: after the consumer has received the stop signal, every call of
\* PauseLogging, RestartLogging, StopLogging, ClearAppenders or
\* ClearLoggers stays in its send on stateChannel for ever: no send on the
\* channel completes any more.
C37_BlockedAfterStop ==
    [][\A t \in Threads :
          /\ controlCall(t) => pc'[t] = "state_send"
          /\ (stopReceived /\ pc[t] = "state_send") =>
                 /\ pc'[t] = "state_send"
                 /\ local'[t] = local[t]]_vars

\* a StopLogging call has returned, the process is still there, and both
\* callers are blocked, one in ClearAppenders and one in PauseLogging
C37_Witness ==
    /\ stopReturned
    /\ ~crashed
    /\ \A t \in Threads : pc[t] = "state_send"
    /\ \E t \in Threads : local[t].op = "ClearAppenders"
    /\ \E t \in Threads : local[t].op = "" /\ local[t].st = paused

(***************************************************************************)
(* The lock of the RollingFileAppender.                                    *)
(***************************************************************************)
\* C38: every exit of RollingFileAppender.Log, the exits that return a
\* roll, open or write error included, leaves the appender's read/write
\* lock unheld, so that no later Log, Roll or Close waits for it for ever.
C38_LogReleasesLock == rolling.readers = 0

(***************************************************************************)
(* Progress of the level changes.                                          *)
(***************************************************************************)
\* the records the caller's flush goroutines still have to send
toSend(t) ==
    UNION {{<<k.inst, j>> : j \in 1..Len(k.recs)} : k \in {x \in tasks : x.owner = t}}

\* C39: with the pipeline running and the consumer scheduled fairly, every
\* SetLogLevel / SetTagLevel call returns in the end, also when the detached
\* buffers hold more records than the queue has free slots: the caller
\* waits for its flush goroutines without the registry lock, so the
\* consumer goes on emptying the queue.
C39_LevelChangeReturns ==
    \A t \in FlushCallers : (pc[t] = "flush_wait") ~> (pc[t] = "idle")

\* a caller waits for goroutines that have records to send while the queue
\* is full and the consumer is about to take the registry lock
C39_Witness ==
    \E t \in FlushCallers :
       /\ pc[t] = "flush_wait"
       /\ toSend(t) # {}
       /\ Len(incomingChannel) = QueueCap
       /\ cpc = "process"

(***************************************************************************)
(* Properties of a logger that ClearLoggers has taken out of the registry. *)
(***************************************************************************)
\* the logger was handed out and the registry no longer holds it
orphan(i) ==
    /\ i \in known \ {defaultLogger}
    /\ \A n \in Names : loggers[n] # i

hasTask(i) == \E k \in tasks : k.inst = i

\* this step is a call of SetLogLevel or SetTagLevel on the logger
configures(i) ==
    \E t \in OrphanCallers :
       \/ \E l \in LogLevel : SetLogLevel(t, i, l)
       \/ \E g \in Tags, l \in LogLevel : SetTagLevel(t, i, g, l)

====
